---- MODULE Spec2Model ----
(***************************************************************************)
(* Model of the merge engine of jwlmerge: public/workers/merge-worker.js.  *)
(* A merge run takes an ordered list of source databases and builds one    *)
(* target database, table by table, keeping a registry (idMappings) of     *)
(* primary keys that changed so that foreign keys can be rewritten.        *)
(*                                                                         *)
(* Rows are records keyed by column name (the code reads a column through  *)
(* columnNames.indexOf(name)).  Columns no statement of the merger reads   *)
(* (Title, ColorIndex, ...) are left out of the rows.                      *)
(*                                                                         *)
(* Spec is a run of the worker's processMerge.  SpecApi is a call of       *)
(* JWLMerger.mergeFiles (lib/merge/merge-logic.ts), which validates the    *)
(* files, hands them to the worker and falls back when the worker fails.   *)
(***************************************************************************)
EXTENDS Integers, Sequences, FiniteSets, TLC

VARIABLES
  sources,            \* the opened source databases, in caller order
  mergeConfig,        \* the merge configuration sent with the files
  targetDb,           \* mergedDb: table name -> set of rows
  idMappings,         \* table name -> (original id -> new id)
  pc,                 \* position of processMerge
  allLocations,       \* mergeLocationData: every Location row of every source
  globalContentMap,   \* mergeLocationData: signature -> index of first occurrence
  usedLocationIds,    \* mergeLocationData: ids inserted in phase 2
  finalLocationId,    \* mergeLocationData: index -> id stamped on a first occurrence
  locIdx,             \* mergeLocationData: phase 2 loop position
  tableIdx,           \* processMerge: position in tablesToMerge
  srcIdx,             \* mergeTableData: position in sourceDatabases
  rowIdx,             \* mergeTableData: position in the source's rows
  idOffset,           \* mergeTableData: offset of simple-id tables
  nextAvailableId,    \* mergeTableData: running id of GUID/composite tables
  written,            \* history: what became of each source row
  posted,             \* messages posted to the main thread (success / error)
  mergedMediaFiles,   \* mergeMediaFiles: file name -> content accepted for the archive
  openDatabases,      \* database sessions opened and not yet closed
  cancelRequested,    \* a message asking to cancel has reached self.onmessage
  runs,               \* the merge messages this worker has taken
  earlierMappings,    \* the registry as the run before left it
  secondRun,          \* position of a processMerge started while this one waits
  managedFiles,       \* JWLMerger.mergeFiles: the files the caller passes
  canHandle,          \* the assessment canHandleClientMerge returned
  deviceMemory,       \* detectDeviceCapabilities().memory, Null for 'unknown'
  webWorkerSupported, \* isWebWorkerSupported()
  apiPc,              \* position of mergeFilesClientSide
  workerFiles,        \* the files sent to the worker
  workerReply,        \* how the worker client's promise settled
  mergeResult,        \* the MergeResult returned to the caller
  promise,            \* MergeWorkerClient.mergeFiles: the promise it returned
  clientPc,           \* MergeWorkerClient: position of prepareAndSendFiles
  worker,             \* MergeWorkerClient: this.worker
  delivered,          \* messages of the worker handed to worker.onmessage
  filesReadable       \* whether every file.arrayBuffer() resolves

vars == <<sources, mergeConfig, targetDb, idMappings, pc, allLocations, globalContentMap,
          usedLocationIds, finalLocationId, locIdx, tableIdx, srcIdx, rowIdx,
          idOffset, nextAvailableId, written, posted, mergedMediaFiles,
          openDatabases, cancelRequested, runs, earlierMappings, secondRun,
          managedFiles, canHandle, deviceMemory,
          webWorkerSupported, apiPc, workerFiles, workerReply, mergeResult,
          promise, clientPc, worker, delivered, filesReadable>>

\* The state of MergeWorkerClient on the main thread.
clientVars == <<promise, clientPc, worker, delivered, filesReadable>>

\* The state of JWLMerger.mergeFilesClientSide on the main thread.
callerVars == <<managedFiles, canHandle, deviceMemory, webWorkerSupported, apiPc,
                workerFiles, workerReply, mergeResult>>

\* The state of the main thread: JWLMerger.mergeFilesClientSide and the
\* worker client.
apiVars == <<managedFiles, canHandle, deviceMemory, webWorkerSupported, apiPc, workerFiles,
             workerReply, mergeResult, promise, clientPc, worker, delivered,
             filesReadable>>

\* The state of the worker's processMerge.
workerVars == <<sources, mergeConfig, targetDb, idMappings, pc, allLocations,
                globalContentMap, usedLocationIds, finalLocationId, locIdx, tableIdx,
                srcIdx, rowIdx, idOffset, nextAvailableId, written, posted,
                mergedMediaFiles, openDatabases, cancelRequested, runs,
                earlierMappings, secondRun>>

-----------------------------------------------------------------------------
(* Values.                                                                 *)

\* JS null / SQL NULL in an INTEGER column, and JS undefined.
Null == -1

\* JS null / SQL NULL in a TEXT column.
NullText == "<null>"

\* Largest primary key a source row carries.
MaxId == 2

Ids == 1..MaxId

-----------------------------------------------------------------------------
(* createLocationConstraintSignature                                       *)

\* `v || 'NULL'` on a number: null, undefined and 0 are falsy.
OrNULL(v) == IF v = Null \/ v = 0 THEN "NULL" ELSE ToString(v)

\* `v || 'NULL'` on a string: null and '' are falsy.
OrNULLText(s) == IF s = NullText \/ s = "" THEN "NULL" ELSE s

\* MepsLanguage written as any other column: NULL and 0 stay apart.
plainMepsLang(mepsLanguage) ==
  IF mepsLanguage = Null THEN "NULL" ELSE ToString(mepsLanguage)

normalizedMepsLang(mepsLanguage) ==
  IF mepsLanguage = Null \/ mepsLanguage = 0 THEN "0" ELSE ToString(mepsLanguage)

IsBibleChapter(row) ==
  /\ row.Type = 0
  /\ row.BookNumber # Null /\ row.BookNumber # 0
  /\ row.ChapterNumber # Null /\ row.ChapterNumber # 0

createLocationConstraintSignature(row) ==
  IF IsBibleChapter(row)
  THEN ToString(row.BookNumber) \o "|" \o ToString(row.ChapterNumber) \o "|"
         \o OrNULLText(row.KeySymbol) \o "|" \o normalizedMepsLang(row.MepsLanguage)
         \o "|" \o OrNULL(row.Type)
  ELSE OrNULLText(row.KeySymbol) \o "|" \o OrNULL(row.IssueTagNumber) \o "|"
         \o normalizedMepsLang(row.MepsLanguage) \o "|" \o OrNULL(row.DocumentId)
         \o "|" \o OrNULL(row.Track) \o "|" \o OrNULL(row.Type)

-----------------------------------------------------------------------------
(* The embedded database, as far as the merger uses it.                    *)

TableNames == {"Location", "Tag", "UserMark", "Note", "TagMap", "BlockRange",
               "PlaylistItem", "Bookmark", "android_metadata"}

\* The id column mergeTableData finds: the first column named Id or ending in Id.
IdColumn(tableName) ==
  CASE tableName = "Location" -> "LocationId"
    [] tableName = "Tag"      -> "TagId"
    [] tableName = "UserMark" -> "UserMarkId"
    [] tableName = "Note"     -> "NoteId"
    [] tableName = "TagMap"   -> "TagMapId"
    [] tableName = "BlockRange" -> "BlockRangeId"
    [] tableName = "PlaylistItem" -> "PlaylistItemId"
    [] tableName = "Bookmark" -> "BookmarkId"

RowId(tableName, row) == row[IdColumn(tableName)]

\* SELECT COUNT(*) FROM t WHERE idColumn = ?  (> 0)
IdExists(db, tableName, id) ==
  \E r \in db[tableName] : RowId(tableName, r) = id

\* SQL `a = b` on INTEGER values: NULL equals nothing.
SqlEq(a, b) == a # Null /\ b # Null /\ a = b

\* SQL `a = b` on TEXT values.
SqlEqText(a, b) == a # NullText /\ b # NullText /\ a = b

\* The two UNIQUE constraints of the Location table.
LocationUniqueViolated(db, row) ==
  \E r \in db["Location"] :
    \/ /\ SqlEq(r.BookNumber, row.BookNumber)
       /\ SqlEq(r.ChapterNumber, row.ChapterNumber)
       /\ SqlEqText(r.KeySymbol, row.KeySymbol)
       /\ SqlEq(r.MepsLanguage, row.MepsLanguage)
       /\ SqlEq(r.Type, row.Type)
    \/ /\ SqlEqText(r.KeySymbol, row.KeySymbol)
       /\ SqlEq(r.IssueTagNumber, row.IssueTagNumber)
       /\ SqlEq(r.MepsLanguage, row.MepsLanguage)
       /\ SqlEq(r.DocumentId, row.DocumentId)
       /\ SqlEq(r.Track, row.Track)
       /\ SqlEq(r.Type, row.Type)

\* An insert whose failure is caught and not passed on.
LocationInsertNeverThrows(db, row) == FALSE

\* Whether `INSERT INTO Location` throws: primary key or UNIQUE violation.
LocationInsertThrows(db, row) ==
  IdExists(db, "Location", row.LocationId) \/ LocationUniqueViolated(db, row)

\* An INSERT that also leaves a copy of the row under another id.
InsertRowAndCopy(db, tableName, row) ==
  [db EXCEPT ![tableName] =
     @ \cup {row, [row EXCEPT ![IdColumn(tableName)] = @ + MaxId + 1]}]

InsertRow(db, tableName, row) ==
  [db EXCEPT ![tableName] = @ \cup {row}]

-----------------------------------------------------------------------------
(* The ID mapping registry.                                                *)

EmptyMap == [x \in {} |-> 0]

NoMappings == [t \in TableNames |-> EmptyMap]

\* A start of processMerge that leaves the registry as it is.
clearNothing(mappings) == mappings

\* idMappings.clear()
clear(mappings) == NoMappings

HasMapping(mappings, tableName, id) == id \in DOMAIN mappings[tableName]

trackIdMapping(mappings, tableName, originalId, newId) ==
  [mappings EXCEPT ![tableName] =
     [k \in DOMAIN @ \cup {originalId} |-> IF k = originalId THEN newId ELSE @[k]]]

-----------------------------------------------------------------------------
(* mergeLocationData                                                       *)

\* The scan of a merger that removes duplicates within one source only.
PerSourceLocationInfos(s) ==
  [i \in 1..Len(sources[s].Location) |->
     [row |-> sources[s].Location[i],
      sourceDb |-> s,
      originalLocationId |-> sources[s].Location[i].LocationId,
      contentSignature |-> ToString(s) \o "#"
                             \o createLocationConstraintSignature(sources[s].Location[i])]]

\* Phase 1 for one source: its rows, ordered by LocationId, each with its signature.
LocationInfos(s) ==
  [i \in 1..Len(sources[s].Location) |->
     [row |-> sources[s].Location[i],
      sourceDb |-> s,
      originalLocationId |-> sources[s].Location[i].LocationId,
      contentSignature |-> createLocationConstraintSignature(sources[s].Location[i])]]

RECURSIVE CollectLocations(_)
CollectLocations(s) ==
  IF s > Len(sources) THEN <<>>
  ELSE LocationInfos(s) \o CollectLocations(s + 1)

\* globalContentMap of a merger that keeps the last row of a signature.
LastOccurrence(all, signature) ==
  CHOOSE i \in 1..Len(all) :
    /\ all[i].contentSignature = signature
    /\ \A j \in (i + 1)..Len(all) : all[j].contentSignature # signature

\* globalContentMap.get(signature): the first locationInfo carrying it.
FirstOccurrence(all, signature) ==
  CHOOSE i \in 1..Len(all) :
    /\ all[i].contentSignature = signature
    /\ \A j \in 1..(i - 1) : all[j].contentSignature # signature

mergeLocationDataPhase1 ==
  /\ pc = "locationPhase1"
  /\ LET all == CollectLocations(1)
     IN /\ allLocations' = all
        /\ globalContentMap' =
             [sig \in {all[i].contentSignature : i \in 1..Len(all)} |->
                FirstOccurrence(all, sig)]
        /\ finalLocationId' = [i \in 1..Len(all) |-> Null]
  /\ usedLocationIds' = {}
  /\ locIdx' = 1
  /\ pc' = IF CollectLocations(1) = <<>> THEN "tables" ELSE "locationPhase2"
  /\ UNCHANGED <<sources, mergeConfig, targetDb, idMappings, tableIdx, srcIdx,
                 rowIdx, idOffset, nextAvailableId, written, posted>>
  /\ UNCHANGED <<mergedMediaFiles, openDatabases>>
  /\ UNCHANGED <<cancelRequested, runs, earlierMappings, secondRun, apiVars>>

\* A search that takes the lowest id not in use, whatever the original id.
LowestFreeLocationId(used, id) ==
  CHOOSE k \in 1..(Cardinality(used) + 1) :
    k \notin used /\ \A j \in 1..(k - 1) : j \in used

\* `while (usedLocationIds.has(newLocationId)) newLocationId++`
RECURSIVE NextFreeLocationId(_, _)
NextFreeLocationId(used, id) ==
  IF id \in used THEN NextFreeLocationId(used, id + 1) ELSE id

\* The id the first occurrence had in its source, whatever id it was given.
FirstOccurrenceOriginalId(first) == allLocations[first].originalLocationId

\* `firstOccurrence.finalLocationId || firstOccurrence.originalLocationId`
FirstOccurrenceId(first) ==
  IF finalLocationId[first] = Null \/ finalLocationId[first] = 0
  THEN allLocations[first].originalLocationId
  ELSE finalLocationId[first]

\* The registry after a duplicate row: a mapping only if the ids differ.
DuplicateLocationMapping(mappings, originalId, firstId) ==
  IF originalId # firstId
  THEN trackIdMapping(mappings, "Location", originalId, firstId)
  ELSE mappings

\* The registry after a first occurrence was inserted.
InsertedLocationMapping(mappings, originalId, finalId) ==
  IF finalId # originalId
  THEN trackIdMapping(mappings, "Location", originalId, finalId)
  ELSE mappings

AfterLocations == IF locIdx + 1 > Len(allLocations) THEN "tables" ELSE "locationPhase2"

mergeLocationDataPhase2 ==
  /\ pc = "locationPhase2"
  /\ locIdx <= Len(allLocations)
  /\ LET info == allLocations[locIdx]
         first == globalContentMap[info.contentSignature]
         finalId == NextFreeLocationId(usedLocationIds, info.originalLocationId)
         adjustedRow == [info.row EXCEPT !.LocationId = finalId]
     IN IF first # locIdx
        THEN \* a duplicate: map it to the first occurrence, insert nothing
             /\ idMappings' = DuplicateLocationMapping(idMappings,
                                 info.originalLocationId, FirstOccurrenceId(first))
             /\ written' = written \cup
                  {[table |-> "Location", source |-> info.sourceDb,
                    original |-> info.row, outcome |-> "duplicate",
                    id |-> FirstOccurrenceId(first)]}
             /\ locIdx' = locIdx + 1
             /\ pc' = AfterLocations
             /\ UNCHANGED <<targetDb, usedLocationIds, finalLocationId, posted>>
        ELSE IF LocationInsertThrows(targetDb, adjustedRow)
        THEN \* the insert throws: mergeLocationData rethrows, processMerge fails
             /\ pc' = "failed"
             /\ UNCHANGED <<targetDb, idMappings, usedLocationIds, finalLocationId,
                            locIdx, written, posted>>
        ELSE /\ targetDb' = InsertRow(targetDb, "Location", adjustedRow)
             /\ usedLocationIds' = usedLocationIds \cup {finalId}
             /\ finalLocationId' = [finalLocationId EXCEPT ![locIdx] = finalId]
             /\ idMappings' = InsertedLocationMapping(idMappings,
                                 info.originalLocationId, finalId)
             /\ written' = written \cup
                  {[table |-> "Location", source |-> info.sourceDb,
                    original |-> info.row, outcome |-> "inserted",
                    id |-> finalId]}
             /\ locIdx' = locIdx + 1
             /\ pc' = AfterLocations
             /\ UNCHANGED posted
  /\ UNCHANGED <<sources, mergeConfig, allLocations, globalContentMap, tableIdx,
                 srcIdx, rowIdx, idOffset, nextAvailableId>>
  /\ UNCHANGED <<mergedMediaFiles, openDatabases>>
  /\ UNCHANGED <<cancelRequested, runs, earlierMappings, secondRun, apiVars>>

-----------------------------------------------------------------------------
(* processMerge: table order and data-type gating                          *)

\* An order that takes the referring tables before the tables they reference.
referrersFirstOrder ==
  <<"LastModified", "grdb_migrations", "InputField",
    "TagMap", "BlockRange", "Note", "Bookmark", "PlaylistItemMarkerBibleVerseMap",
    "PlaylistItemMarkerParagraphMap", "PlaylistItemMarker", "PlaylistItemLocationMap",
    "PlaylistItemIndependentMediaMap", "PlaylistItem", "UserMark",
    "IndependentMedia", "Tag", "Location", "PlaylistItemAccuracy">>

getTableMergeOrder ==
  <<"LastModified", "grdb_migrations", "PlaylistItemAccuracy",
    "Location", "Tag", "IndependentMedia",
    "UserMark", "PlaylistItem", "Bookmark",
    "Note", "BlockRange", "PlaylistItemMarker", "PlaylistItemLocationMap",
    "PlaylistItemIndependentMediaMap",
    "TagMap", "PlaylistItemMarkerBibleVerseMap", "PlaylistItemMarkerParagraphMap",
    "InputField">>

\* The tables of the first source's schema, in sqlite_master order.
availableTableNames ==
  <<"android_metadata", "PlaylistItem", "Bookmark", "BlockRange", "TagMap", "Note",
    "UserMark", "Tag", "Location">>

InSeq(x, seq) == \E i \in 1..Len(seq) : seq[i] = x

IsOrderedTable(tableName) ==
  InSeq(tableName, availableTableNames) /\ tableName # "Location"

IsUnorderedTable(tableName) ==
  ~InSeq(tableName, getTableMergeOrder) /\ tableName # "Location"

tablesToMerge ==
  SelectSeq(getTableMergeOrder, IsOrderedTable)
    \o SelectSeq(availableTableNames, IsUnorderedTable)

\* tableMap of shouldIncludeDataType: table name -> data type id.
DataTypeOfTable(tableName) ==
  CASE tableName = "Note"       -> "notes"
    [] tableName = "Bookmark"   -> "bookmarks"
    [] tableName = "UserMark"   -> "highlights"
    [] tableName = "TagMap"     -> "tags"
    [] tableName = "InputField" -> "inputfields"
    [] tableName = "Playlist"   -> "playlists"
    [] OTHER                    -> "none"

DataTypeIds == {"notes", "bookmarks", "highlights", "tags", "inputfields", "playlists"}

\* A flag of globalDataTypes is "true", "false" or "undefined" (key absent).
shouldIncludeDataType(tableName, config) ==
  IF DataTypeOfTable(tableName) = "none" THEN TRUE
  ELSE IF ~config.hasGlobalDataTypes THEN TRUE
  ELSE config.globalDataTypes[DataTypeOfTable(tableName)] = "true"

-----------------------------------------------------------------------------
(* mergeTableData                                                          *)

isGuidOrCompositeUniqueTable(tableName) ==
  tableName \in {"UserMark", "Note", "Bookmark", "TagMap", "Location", "Tag",
                 "PlaylistItem", "PlaylistItemMarker", "IndependentMedia",
                 "PlaylistItemAccuracy", "grdb_migrations"}

\* foreignKeyMappings of updateForeignKeyReferences.
foreignKeyMappings(tableName) ==
  CASE tableName = "BlockRange" -> {<<"UserMarkId", "UserMark">>}
    [] tableName = "UserMark" -> {<<"LocationId", "Location">>}
    [] tableName = "Note"     -> {<<"UserMarkId", "UserMark">>, <<"LocationId", "Location">>}
    [] tableName = "PlaylistItem" ->
         {<<"PlaylistItemAccuracyId", "PlaylistItemAccuracy">>,
          <<"IndependentMediaId", "IndependentMedia">>}
    [] tableName = "TagMap"   -> {<<"TagId", "Tag">>, <<"PlaylistItemId", "PlaylistItem">>,
                                  <<"LocationId", "Location">>, <<"NoteId", "Note">>}
    [] tableName = "Bookmark" -> {<<"LocationId", "Location">>}
    [] tableName = "PlaylistItemMarker" -> {<<"PlaylistItemId", "PlaylistItem">>}
    [] tableName = "PlaylistItemLocationMap" ->
         {<<"PlaylistItemId", "PlaylistItem">>, <<"LocationId", "Location">>}
    [] tableName = "PlaylistItemIndependentMediaMap" ->
         {<<"PlaylistItemId", "PlaylistItem">>,
          <<"IndependentMediaId", "IndependentMedia">>}
    [] tableName = "PlaylistItemMarkerBibleVerseMap" ->
         {<<"PlaylistItemMarkerId", "PlaylistItemMarker">>}
    [] tableName = "PlaylistItemMarkerParagraphMap" ->
         {<<"PlaylistItemMarkerId", "PlaylistItemMarker">>}
    [] OTHER                  -> {}

\* The table a column references, for a column that is a foreign key.
ReferencedTable(tableName, column) ==
  (CHOOSE fk \in foreignKeyMappings(tableName) : fk[1] = column)[2]

IsForeignKey(tableName, column) ==
  \E fk \in foreignKeyMappings(tableName) : fk[1] = column

\* A rewrite that keeps a value the target already holds and asks the
\* registry only for a value the target does not hold.
ExistingReferenceFirst(mappings, referencedTable, value) ==
  IF referencedTable \in TableNames /\ IdExists(targetDb, referencedTable, value)
  THEN value
  ELSE IF HasMapping(mappings, referencedTable, value)
  THEN mappings[referencedTable][value]
  ELSE value

\* One value through the registry: the mapping if there is one, else the value
\* itself, whether or not it exists in the target.
UpdatedReference(mappings, referencedTable, value) ==
  IF HasMapping(mappings, referencedTable, value)
  THEN mappings[referencedTable][value]
  ELSE value

updateForeignKeyReferences(row, tableName, mappings) ==
  [c \in DOMAIN row |->
     IF IsForeignKey(tableName, c)
     THEN IF row[c] # Null
          THEN UpdatedReference(mappings, ReferencedTable(tableName, c), row[c])
          ELSE row[c]
     ELSE row[c]]

Max(S) == CHOOSE x \in S : \A y \in S : y <= x

Min(S) == CHOOSE x \in S : \A y \in S : x <= y

\* `(maxId || 0) + 1` over the target table, at the start of mergeTableData.
InitialNextAvailableId(db, tableName) ==
  IF db[tableName] = {} THEN 1
  ELSE Max({RowId(tableName, r) : r \in db[tableName]}) + 1

\* Bound of the search for a free id.
MaxAttempts == 1000

\* `while (attempts < 1000) { if free break; newId++; attempts++ }`: the loop
\* leaves newId at the first free id from where it started, or, when it has
\* used up its attempts, at the id after the last one it looked up.  Of the
\* ids newId .. newId + n at least one is free in a table of n rows, so the
\* first free id is looked for no further than that.
SearchNewId(db, tableName, newId, attempts) ==
  LET left == MaxAttempts - attempts
      n == Cardinality(db[tableName])
      free == {k \in 0..(IF n < left THEN n ELSE left) :
                 k < left /\ ~IdExists(db, tableName, newId + k)}
  IN IF left <= 0 THEN newId
     ELSE IF free = {} THEN newId + left
     ELSE newId + Min(free)

NoPending == [originalId |-> Null, newId |-> Null]

\* The id of the first row a duplicate query returns (existing[0].values[0][0]).
FirstId(tableName, rows) == Min({RowId(tableName, r) : r \in rows})

TagDuplicates(db, row) ==
  {r \in db["Tag"] : SqlEq(r.Type, row.Type) /\ SqlEqText(r.Name, row.Name)}

UserMarkDuplicates(db, row) ==
  {r \in db["UserMark"] : SqlEqText(r.UserMarkGuid, row.UserMarkGuid)}

NoteDuplicates(db, row) ==
  {r \in db["Note"] : SqlEqText(r.Guid, row.Guid)}

\* WHERE Label = ? AND ThumbnailFilePath = ?, also for no thumbnail.
PlaylistItemEqualColumns(db, row) ==
  {r \in db["PlaylistItem"] :
     /\ SqlEqText(r.Label, row.Label)
     /\ SqlEqText(r.ThumbnailFilePath, row.ThumbnailFilePath)}

\* WHERE Label = ? AND ThumbnailFilePath IS NULL, or = ? for a thumbnail.
PlaylistItemDuplicates(db, row) ==
  {r \in db["PlaylistItem"] :
     /\ SqlEqText(r.Label, row.Label)
     /\ IF row.ThumbnailFilePath = NullText
        THEN r.ThumbnailFilePath = NullText
        ELSE SqlEqText(r.ThumbnailFilePath, row.ThumbnailFilePath)}

\* A Bookmark row checked for duplicates as it comes from the source.
BookmarkAsInSource(row, mappings) == row

\* `Apply any Location ID mappings` of the Bookmark handling: LocationId and
\* PublicationLocationId are replaced in adjustedRow by their registry entries.
BookmarkThroughRegistry(row, mappings) ==
  [row EXCEPT
     !.LocationId = IF HasMapping(mappings, "Location", @)
                    THEN mappings["Location"][@] ELSE @,
     !.PublicationLocationId = IF HasMapping(mappings, "Location", @)
                               THEN mappings["Location"][@] ELSE @]

\* SELECT COUNT(*) FROM Bookmark WHERE LocationId = ? AND PublicationLocationId = ?
BookmarkDuplicate(db, row) ==
  \E r \in db["Bookmark"] :
    /\ SqlEq(r.LocationId, row.LocationId)
    /\ SqlEq(r.PublicationLocationId, row.PublicationLocationId)

\* adjustedRow as it reaches updateForeignKeyReferences.
BeforeForeignKeys(tableName, row, mappings) ==
  IF tableName = "Bookmark" THEN BookmarkThroughRegistry(row, mappings) ELSE row

\* The three TagMap checks, on the row as it is when they run.
TagMapDuplicate(db, row) ==
  \/ /\ row.Position # Null
     /\ \E r \in db["TagMap"] : SqlEq(r.TagId, row.TagId) /\ SqlEq(r.Position, row.Position)
  \/ /\ row.LocationId # Null
     /\ \E r \in db["TagMap"] : SqlEq(r.TagId, row.TagId) /\ SqlEq(r.LocationId, row.LocationId)
  \/ /\ row.NoteId # Null
     /\ \E r \in db["TagMap"] : SqlEq(r.TagId, row.TagId) /\ SqlEq(r.NoteId, row.NoteId)

\* The UNIQUE constraints of the target's tables, which INSERT OR IGNORE obeys.
UniqueViolated(db, tableName, row) ==
  CASE tableName = "Tag"      -> TagDuplicates(db, row) # {}
    [] tableName = "UserMark" -> UserMarkDuplicates(db, row) # {}
    [] tableName = "Note"     -> NoteDuplicates(db, row) # {}
    [] tableName = "Bookmark" ->
         \E r \in db["Bookmark"] :
           /\ SqlEq(r.PublicationLocationId, row.PublicationLocationId)
           /\ SqlEq(r.Slot, row.Slot)
    [] tableName = "TagMap"   ->
         \E r \in db["TagMap"] :
           /\ SqlEq(r.TagId, row.TagId)
           /\ \/ SqlEq(r.Position, row.Position)
              \/ SqlEq(r.LocationId, row.LocationId)
              \/ SqlEq(r.NoteId, row.NoteId)
    [] OTHER -> FALSE

\* INSERT OR IGNORE INTO t VALUES (...)
InsertOrIgnore(db, tableName, row) ==
  IF IdExists(db, tableName, RowId(tableName, row)) \/ UniqueViolated(db, tableName, row)
  THEN db
  ELSE InsertRow(db, tableName, row)

\* The row after the id-conflict step, with the mapping left pending on it.
ResolveIdConflict(db, tableName, row, nextId, offset) ==
  IF isGuidOrCompositeUniqueTable(tableName)
  THEN IF IdExists(db, tableName, RowId(tableName, row))
       THEN LET newId == SearchNewId(db, tableName, nextId, 0)
            IN [row |-> [row EXCEPT ![IdColumn(tableName)] = newId],
                pending |-> [originalId |-> RowId(tableName, row), newId |-> newId],
                nextId |-> newId + 1]
       ELSE [row |-> row, pending |-> NoPending, nextId |-> nextId]
  ELSE [row |-> [row EXCEPT ![IdColumn(tableName)] = @ + offset],
        pending |-> NoPending, nextId |-> nextId]

\* _pendingIdMapping after `adjustedRow = updateForeignKeyReferences(...)`: the
\* function returns the same array for a table without foreign keys and a new
\* array (row.map) for a table with foreign keys.
PendingAfterUpdate(tableName, pending) ==
  IF foreignKeyMappings(tableName) = {} THEN pending ELSE NoPending

\* The registry after the insert was verified.
CommitPending(mappings, tableName, pending, insertSucceeded) ==
  IF insertSucceeded /\ pending # NoPending
  THEN trackIdMapping(mappings, tableName, pending.originalId, pending.newId)
  ELSE mappings

\* One iteration of the row loop: the duplicate checks, the id conflict, the
\* foreign keys, the insert and its verification.
ProcessRow(db, mappings, tableName, row, nextId, offset) ==
  LET originalId == RowId(tableName, row)
      conflict == ResolveIdConflict(db, tableName, row, nextId, offset)
      updated == updateForeignKeyReferences(
                   BeforeForeignKeys(tableName, conflict.row, mappings),
                   tableName, mappings)
      pending == PendingAfterUpdate(tableName, conflict.pending)
      after == InsertOrIgnore(db, tableName, updated)
      insertSucceeded == IdExists(after, tableName, RowId(tableName, updated))
  IN IF tableName = "Tag" /\ TagDuplicates(db, row) # {}
     THEN [db |-> db, nextId |-> nextId, outcome |-> "duplicate",
           id |-> FirstId("Tag", TagDuplicates(db, row)),
           mappings |-> trackIdMapping(mappings, "Tag", originalId,
                                       FirstId("Tag", TagDuplicates(db, row)))]
     ELSE IF tableName = "UserMark" /\ UserMarkDuplicates(db, row) # {}
     THEN [db |-> db, nextId |-> conflict.nextId, outcome |-> "duplicate",
           id |-> FirstId("UserMark", UserMarkDuplicates(db, row)),
           mappings |-> mappings]
     ELSE IF tableName = "Note" /\ NoteDuplicates(db, row) # {}
     THEN [db |-> db, nextId |-> conflict.nextId, outcome |-> "duplicate",
           id |-> FirstId("Note", NoteDuplicates(db, row)),
           mappings |-> mappings]
     ELSE IF tableName = "PlaylistItem" /\ PlaylistItemDuplicates(db, row) # {}
     THEN [db |-> db, nextId |-> conflict.nextId, outcome |-> "duplicate",
           id |-> FirstId("PlaylistItem", PlaylistItemDuplicates(db, row)),
           mappings |-> trackIdMapping(mappings, "PlaylistItem", originalId,
                          FirstId("PlaylistItem", PlaylistItemDuplicates(db, row)))]
     ELSE IF /\ tableName = "Bookmark"
             /\ BookmarkDuplicate(db, BookmarkThroughRegistry(conflict.row, mappings))
     THEN [db |-> db, nextId |-> conflict.nextId, outcome |-> "duplicate",
           id |-> Null, mappings |-> mappings]
     ELSE IF tableName = "TagMap" /\ TagMapDuplicate(db, conflict.row)
     THEN [db |-> db, nextId |-> conflict.nextId, outcome |-> "duplicate",
           id |-> Null, mappings |-> mappings]
     ELSE [db |-> after, nextId |-> conflict.nextId,
           outcome |-> IF after # db THEN "inserted" ELSE "ignored",
           id |-> RowId(tableName, updated),
           mappings |-> CommitPending(mappings, tableName, pending, insertSucceeded)]

CurrentTable == tablesToMerge[tableIdx]

\* processMerge's table loop: the next table, gated by its data type.
processMergeNextTable ==
  /\ pc = "tables"
  /\ IF tableIdx > Len(tablesToMerge)
     THEN /\ pc' = "media"
          /\ UNCHANGED <<tableIdx, srcIdx, rowIdx, idOffset, nextAvailableId>>
     ELSE IF shouldIncludeDataType(CurrentTable, mergeConfig)
     THEN /\ pc' = "mergeTable"
          /\ srcIdx' = 1
          /\ rowIdx' = 1
          /\ idOffset' = 0
          /\ nextAvailableId' =
               IF isGuidOrCompositeUniqueTable(CurrentTable)
               THEN InitialNextAvailableId(targetDb, CurrentTable)
               ELSE Null
          /\ UNCHANGED tableIdx
     ELSE /\ tableIdx' = tableIdx + 1
          /\ UNCHANGED <<pc, srcIdx, rowIdx, idOffset, nextAvailableId>>
  /\ UNCHANGED <<sources, mergeConfig, targetDb, idMappings, allLocations,
                 globalContentMap, usedLocationIds, finalLocationId, locIdx,
                 written, posted>>
  /\ UNCHANGED <<mergedMediaFiles, openDatabases>>
  /\ UNCHANGED <<cancelRequested, runs, earlierMappings, secondRun, apiVars>>

SourceRows(s, tableName) == sources[s][tableName]

AbortOnIgnoredRow(outcome) == IF outcome = "ignored" THEN "failed" ELSE "mergeTable"

\* Where the row loop goes after a row: whether the row was inserted, skipped
\* as a duplicate, dropped by INSERT OR IGNORE or refused with an exception
\* (caught and logged), the loop goes on with the next row.
AfterRow(outcome) == "mergeTable"

mergeTableDataRow ==
  /\ pc = "mergeTable"
  /\ srcIdx <= Len(sources)
  /\ rowIdx <= Len(SourceRows(srcIdx, CurrentTable))
  /\ LET row == SourceRows(srcIdx, CurrentTable)[rowIdx]
         res == ProcessRow(targetDb, idMappings, CurrentTable, row,
                           nextAvailableId, idOffset)
     IN /\ targetDb' = res.db
        /\ idMappings' = res.mappings
        /\ nextAvailableId' = res.nextId
        /\ written' = written \cup
             {[table |-> CurrentTable, source |-> srcIdx, original |-> row,
               outcome |-> res.outcome, id |-> res.id]}
        /\ pc' = AfterRow(res.outcome)
  /\ rowIdx' = rowIdx + 1
  /\ UNCHANGED <<sources, mergeConfig, allLocations, globalContentMap,
                 usedLocationIds, finalLocationId, locIdx, tableIdx, srcIdx,
                 idOffset, posted>>
  /\ UNCHANGED <<mergedMediaFiles, openDatabases>>
  /\ UNCHANGED <<cancelRequested, runs, earlierMappings, secondRun, apiVars>>

\* The end of one source's rows: the offset of simple-id tables moves past the
\* source's largest id; after the last source the table is done.
NextIdOffset(tableName, rows, offset) ==
  IF ~isGuidOrCompositeUniqueTable(tableName) /\ Len(rows) > 0
  THEN LET maxId == Max({RowId(tableName, rows[i]) : i \in 1..Len(rows)})
       IN IF offset > maxId + 1 THEN offset ELSE maxId + 1
  ELSE offset

mergeTableDataNextSource ==
  /\ pc = "mergeTable"
  /\ srcIdx <= Len(sources)
  /\ rowIdx > Len(SourceRows(srcIdx, CurrentTable))
  /\ idOffset' = NextIdOffset(CurrentTable, SourceRows(srcIdx, CurrentTable), idOffset)
  /\ rowIdx' = 1
  /\ IF srcIdx = Len(sources)
     THEN /\ pc' = "tables"
          /\ tableIdx' = tableIdx + 1
          /\ UNCHANGED srcIdx
     ELSE /\ srcIdx' = srcIdx + 1
          /\ UNCHANGED <<pc, tableIdx>>
  /\ UNCHANGED <<sources, mergeConfig, targetDb, idMappings, allLocations,
                 globalContentMap, usedLocationIds, finalLocationId, locIdx,
                 nextAvailableId, written, posted>>
  /\ UNCHANGED <<mergedMediaFiles, openDatabases>>
  /\ UNCHANGED <<cancelRequested, runs, earlierMappings, secondRun, apiVars>>

-----------------------------------------------------------------------------
(* mergeMediaFiles                                                         *)

\* SHA-256 of an entry's content, in hex: equal exactly for equal contents.
ContentHash(data) == "sha256:" \o data

\* filename.endsWith('/'), over the names archives carry here.
EndsWithSlash(filename) == filename \in {"media/"}

\* The entries of an archive that are media: not the manifest, not the
\* database, not a directory.
IsMediaEntry(filename) ==
  /\ filename # "manifest.json"
  /\ filename # "userData.db"
  /\ ~EndsWithSlash(filename)

FileEntries(zip) == SelectSeq(zip, LAMBDA e : IsMediaEntry(e.name))

NoMedia == [seenHashes |-> {}, mediaFiles |-> EmptyMap]

\* One entry: accepted under its name, replacing what the name held, unless
\* its content hash was seen before.
AddMediaFile(state, entry) ==
  IF ContentHash(entry.data) \notin state.seenHashes
  THEN [seenHashes |-> state.seenHashes \cup {ContentHash(entry.data)},
        mediaFiles |-> [n \in DOMAIN state.mediaFiles \cup {entry.name} |->
                          IF n = entry.name THEN entry.data ELSE state.mediaFiles[n]]]
  ELSE state

RECURSIVE AddMediaFiles(_, _, _)
AddMediaFiles(state, entries, i) ==
  IF i > Len(entries) THEN state
  ELSE AddMediaFiles(AddMediaFile(state, entries[i]), entries, i + 1)

RECURSIVE MergeMediaFrom(_, _, _)
MergeMediaFrom(state, databases, s) ==
  IF s > Len(databases) THEN state
  ELSE MergeMediaFrom(AddMediaFiles(state, FileEntries(databases[s].zip), 1),
                      databases, s + 1)

mergeMediaFiles(databases) == MergeMediaFrom(NoMedia, databases, 1).mediaFiles

\* processMerge after the table loop: the media of all sources.
processMergeMedia ==
  /\ pc = "media"
  /\ mergedMediaFiles' = mergeMediaFiles(sources)
  /\ pc' = "finish"
  /\ UNCHANGED <<sources, mergeConfig, targetDb, idMappings, allLocations,
                 globalContentMap, usedLocationIds, finalLocationId, locIdx, tableIdx,
                 srcIdx, rowIdx, idOffset, nextAvailableId, written, posted,
                 openDatabases>>
  /\ UNCHANGED <<cancelRequested, runs, earlierMappings, secondRun, apiVars>>

-----------------------------------------------------------------------------
(* validateMergeIntegrity                                                  *)

\* UserMark LEFT JOIN Location ... WHERE l.LocationId IS NULL
OrphanedUserMarks(db) ==
  {u \in db["UserMark"] : ~\E l \in db["Location"] : SqlEq(u.LocationId, l.LocationId)}

\* Note LEFT JOIN Location ... WHERE n.LocationId IS NOT NULL AND l.LocationId IS NULL
OrphanedNotes(db) ==
  {n \in db["Note"] :
     /\ n.LocationId # Null
     /\ ~\E l \in db["Location"] : SqlEq(n.LocationId, l.LocationId)}

\* COALESCE(v, 'NULL') on an INTEGER column.
Coalesce(v) == IF v = Null THEN "NULL" ELSE ToString(v)

\* COALESCE(s, 'NULL') on a TEXT column.
CoalesceText(s) == IF s = NullText THEN "NULL" ELSE s

\* CASE WHEN MepsLanguage IS NULL OR MepsLanguage = 0 THEN '0' ELSE MepsLanguage END
SqlMepsLanguage(m) == IF m = Null \/ m = 0 THEN "0" ELSE ToString(m)

\* `x || Type`: SQL concatenation with NULL is NULL.
ConcatType(prefix, type) == IF type = Null THEN NullText ELSE prefix \o ToString(type)

\* The ConstraintSignature column of the validator's query.
SqlConstraintSignature(row) ==
  IF SqlEq(row.Type, 0)
     /\ row.BookNumber # Null /\ row.BookNumber # 0
     /\ row.ChapterNumber # Null /\ row.ChapterNumber # 0
  THEN ConcatType(ToString(row.BookNumber) \o "|" \o ToString(row.ChapterNumber) \o "|"
                    \o CoalesceText(row.KeySymbol) \o "|"
                    \o SqlMepsLanguage(row.MepsLanguage) \o "|", row.Type)
  ELSE ConcatType(CoalesceText(row.KeySymbol) \o "|" \o Coalesce(row.IssueTagNumber)
                    \o "|" \o SqlMepsLanguage(row.MepsLanguage) \o "|"
                    \o Coalesce(row.DocumentId) \o "|" \o Coalesce(row.Track) \o "|",
                  row.Type)

\* GROUP BY ConstraintSignature HAVING COUNT(*) > 1: the groups returned.
DuplicateLocationGroups(db) ==
  {sig \in {SqlConstraintSignature(r) : r \in db["Location"]} :
     Cardinality({r \in db["Location"] : SqlConstraintSignature(r) = sig}) > 1}

RECURSIVE SumOver(_, _)
SumOver(f, S) ==
  IF S = {} THEN 0
  ELSE LET x == CHOOSE y \in S : TRUE IN f[x] + SumOver(f, S \ {x})

TotalMappings(mappings) ==
  SumOver([t \in DOMAIN mappings |-> Cardinality(DOMAIN mappings[t])], DOMAIN mappings)

validateMergeIntegrity(db, mappings) ==
  [orphanedUserMarks |-> Cardinality(OrphanedUserMarks(db)),
   orphanedNotes |-> Cardinality(OrphanedNotes(db)),
   duplicateLocations |-> Cardinality(DuplicateLocationGroups(db)),
   totalMappings |-> TotalMappings(mappings)]

\* Every session closed: the sources' databases and the merged database.
AllClosed == [sources |-> {}, merged |-> FALSE]

DuplicatesRemoved(db) ==
  [db EXCEPT !["Location"] =
     {r \in @ : SqlConstraintSignature(r) \notin DuplicateLocationGroups(db)}]

\* The target after the statements validateMergeIntegrity runs on it: every
\* one of them is a SELECT.
AfterValidation(db) == db

\* The end of processMerge: export the target into the archive, validate the
\* target, post the result with the archive's database and media entries,
\* close the databases.
processMergeFinish ==
  /\ pc = "finish"
  /\ posted' = Append(posted, [type |-> "success",
                               database |-> targetDb,
                               media |-> mergedMediaFiles,
                               validation |-> validateMergeIntegrity(targetDb, idMappings)])
  /\ targetDb' = AfterValidation(targetDb)
  /\ openDatabases' = AllClosed
  /\ pc' = "done"
  /\ UNCHANGED <<sources, mergeConfig, idMappings, allLocations,
                 globalContentMap, usedLocationIds, finalLocationId, locIdx, tableIdx,
                 srcIdx, rowIdx, idOffset, nextAvailableId, written, mergedMediaFiles>>
  /\ UNCHANGED <<cancelRequested, runs, earlierMappings, secondRun, apiVars>>

-----------------------------------------------------------------------------
(* self.onmessage                                                          *)

\* The places where processMerge waits for something outside the worker and
\* the event loop can hand a message to self.onmessage: loading the archives
\* (before the merge begins), reading and hashing the media, hashing the
\* database and generating the archive.  mergeLocationData and mergeTableData
\* wait for nothing.
AtAwait == pc \in {"locationPhase1", "media", "finish"}

\* A message whose type is not 'merge' arrives while processMerge is at an
\* await: the handler takes nothing from it and returns.  Here the message
\* is a request to cancel the run.
onmessageCancel ==
  /\ AtAwait
  /\ ~cancelRequested
  /\ cancelRequested' = TRUE
  /\ UNCHANGED <<sources, mergeConfig, targetDb, idMappings, pc, allLocations,
                 globalContentMap, usedLocationIds, finalLocationId, locIdx, tableIdx,
                 srcIdx, rowIdx, idOffset, nextAvailableId, written, posted,
                 mergedMediaFiles, openDatabases, runs, earlierMappings, secondRun>>
  /\ UNCHANGED apiVars

-----------------------------------------------------------------------------
(* The inputs: source databases, each internally consistent (ids unique   *)
(* and ascending within a table, every foreign key set to a row of the    *)
(* same source).                                                           *)

\* Genesis 1 of the study Bible: a Bible chapter.
Genesis1 ==
  [BookNumber |-> 1, ChapterNumber |-> 1, DocumentId |-> Null, Track |-> Null,
   KeySymbol |-> "nwt", MepsLanguage |-> 0, Type |-> 0, IssueTagNumber |-> 0]

\* The same chapter, stored with MepsLanguage NULL.
Genesis1NullLanguage == [Genesis1 EXCEPT !.MepsLanguage = Null]

\* A document of a publication.
Pt14Document ==
  [BookNumber |-> Null, ChapterNumber |-> Null, DocumentId |-> 1, Track |-> Null,
   KeySymbol |-> "pt14", MepsLanguage |-> 0, Type |-> 0, IssueTagNumber |-> 0]

\* Two publications stored with Type NULL.
UntypedW ==
  [BookNumber |-> Null, ChapterNumber |-> Null, DocumentId |-> Null, Track |-> Null,
   KeySymbol |-> "w", MepsLanguage |-> 0, Type |-> Null, IssueTagNumber |-> Null]

UntypedMwb == [UntypedW EXCEPT !.KeySymbol = "mwb"]

\* Genesis 2.
Genesis2 == [Genesis1 EXCEPT !.ChapterNumber = 2]

LocationContents == {Genesis1, Genesis1NullLanguage, Genesis2, Pt14Document}

\* Two documents of a Type 1 publication filed under the same book and chapter:
\* their signatures differ in DocumentId, yet they agree on every column of
\* UNIQUE(BookNumber, ChapterNumber, KeySymbol, MepsLanguage, Type).
Type1Document1 ==
  [BookNumber |-> 1, ChapterNumber |-> 1, DocumentId |-> 1, Track |-> Null,
   KeySymbol |-> "nwtsty", MepsLanguage |-> 0, Type |-> 1, IssueTagNumber |-> 0]

Type1Document2 == [Type1Document1 EXCEPT !.DocumentId = 2]

ClashingContents == {Type1Document1, Type1Document2}

\* The Location table declares Type without NOT NULL.
UntypedContents == {UntypedW, UntypedMwb}

LocationRow(id, content) ==
  [LocationId |-> id, BookNumber |-> content.BookNumber,
   ChapterNumber |-> content.ChapterNumber, DocumentId |-> content.DocumentId,
   Track |-> content.Track, KeySymbol |-> content.KeySymbol,
   MepsLanguage |-> content.MepsLanguage, Type |-> content.Type,
   IssueTagNumber |-> content.IssueTagNumber]

UserMarkGuids == {"guid-1", "guid-2"}

NoteGuids == {"note-1", "note-2"}

TagNames == {"Favourites", "Work"}

\* The two entries every backup archive holds.
ManifestAndDatabase ==
  <<[name |-> "manifest.json", data |-> "manifest"],
    [name |-> "userData.db", data |-> "database"]>>

EmptySource == [Location |-> <<>>, Tag |-> <<>>, UserMark |-> <<>>, Note |-> <<>>,
                TagMap |-> <<>>, BlockRange |-> <<>>, PlaylistItem |-> <<>>,
                Bookmark |-> <<>>,
                android_metadata |-> <<>>, zip |-> ManifestAndDatabase]

\* Sources with one Location row and at most one highlight on it.
HighlightOn(id) == <<[UserMarkId |-> 1, UserMarkGuid |-> "guid-1", LocationId |-> id]>>

LocationSources ==
  {[EmptySource EXCEPT !.Location = <<LocationRow(id, c)>>,
                       !.UserMark = IF marked THEN HighlightOn(id) ELSE <<>>] :
     id \in Ids, c \in LocationContents, marked \in BOOLEAN}

\* Sources with one Location row whose Type is NULL.
UntypedSources ==
  {[EmptySource EXCEPT !.Location = <<LocationRow(id, c)>>] :
     id \in Ids, c \in UntypedContents}

\* Sources with one Location row of the Type 1 publication.
ClashingSources ==
  {[EmptySource EXCEPT !.Location = <<LocationRow(id, c)>>] :
     id \in Ids, c \in ClashingContents}

\* Another document of the same publication: only DocumentId differs.
Pt14Document2 == [Pt14Document EXCEPT !.DocumentId = 2]

PublicationContents == {Pt14Document, Pt14Document2}

\* Location tables with one document, or with both under ascending ids.
PublicationTables ==
  {<<LocationRow(id, c)>> : id \in Ids, c \in PublicationContents}
   \cup {<<LocationRow(id1, c1), LocationRow(id2, c2)>> :
           id1 \in Ids, id2 \in Ids, c1 \in PublicationContents, c2 \in PublicationContents}

AscendingDocuments(locations) ==
  Len(locations) = 2 =>
    /\ locations[1].LocationId < locations[2].LocationId
    /\ locations[1].DocumentId # locations[2].DocumentId

\* No highlight, or one highlight on one of the source's documents.
HighlightsOn(locations) ==
  {<<>>} \cup {<<[UserMarkId |-> 1, UserMarkGuid |-> g,
                  LocationId |-> locations[i].LocationId]>> :
                 g \in UserMarkGuids, i \in 1..Len(locations)}

\* Sources with documents of one publication and a highlight on one of them.
PublicationSources ==
  UNION {{[EmptySource EXCEPT !.Location = locations, !.UserMark = marks] :
            marks \in HighlightsOn(locations)} :
         locations \in {l \in PublicationTables : AscendingDocuments(l)}}

\* An issue of a periodical: identified by IssueTagNumber, no DocumentId.
WatchtowerIssue ==
  [BookNumber |-> Null, ChapterNumber |-> Null, DocumentId |-> Null, Track |-> Null,
   KeySymbol |-> "w", MepsLanguage |-> 0, Type |-> 0, IssueTagNumber |-> 1]

\* Rows that differ from another row only in a column being NULL or 0.
NullableContents ==
  {WatchtowerIssue,
   [WatchtowerIssue EXCEPT !.DocumentId = 0],
   [WatchtowerIssue EXCEPT !.Track = 0],
   Pt14Document,
   [Pt14Document EXCEPT !.IssueTagNumber = Null],
   [Pt14Document EXCEPT !.MepsLanguage = Null]}

NullableSources ==
  {[EmptySource EXCEPT !.Location = <<LocationRow(id, c)>>] :
     id \in Ids, c \in NullableContents}

\* Sources with one playlist item.
PlaylistItemRow(id, label, thumbnail) ==
  [PlaylistItemId |-> id, Label |-> label, ThumbnailFilePath |-> thumbnail]

PlaylistSources ==
  {[EmptySource EXCEPT !.PlaylistItem = <<PlaylistItemRow(id, label, thumbnail)>>] :
     id \in Ids, label \in {"Talk 23", "Talk 5"}, thumbnail \in {NullText, "talk.jpg"}}

\* Sources with one Location row and at most one bookmark on it.
BookmarkOn(id, slot) ==
  <<[BookmarkId |-> 1, LocationId |-> id, PublicationLocationId |-> id, Slot |-> slot]>>

BookmarkedSource(id, content, slot) ==
  [EmptySource EXCEPT !.Location = <<LocationRow(id, content)>>,
                       !.Bookmark = IF slot = Null THEN <<>> ELSE BookmarkOn(id, slot)]

BookmarkSources ==
  {BookmarkedSource(id, c, slot) :
     id \in Ids, c \in {Genesis1, Genesis2, Pt14Document}, slot \in {Null, 0, 1}}

\* At most one source of a run of three carries a bookmark.
FewBookmarks(srcs) ==
  Cardinality({i \in DOMAIN srcs : srcs[i].Bookmark # <<>>}) <= 1

\* Sources with highlights and notes on one common Location row.
UserMarkTables ==
  {<<>>} \cup {<<[UserMarkId |-> id, UserMarkGuid |-> g, LocationId |-> 1]>> :
                 id \in Ids, g \in UserMarkGuids}

NoteTables(marks) ==
  {<<>>}
   \cup {<<[NoteId |-> id, Guid |-> g, UserMarkId |-> Null, LocationId |-> 1]>> :
           id \in Ids, g \in NoteGuids}
   \cup {<<[NoteId |-> id, Guid |-> g, UserMarkId |-> marks[m].UserMarkId,
            LocationId |-> Null]>> :
           id \in Ids, g \in NoteGuids, m \in 1..Len(marks)}

HighlightSources ==
  UNION {{[EmptySource EXCEPT !.Location = <<LocationRow(1, Genesis1)>>,
                              !.UserMark = marks, !.Note = notes] :
            notes \in NoteTables(marks)} : marks \in UserMarkTables}

\* Sources with tags and tag maps on one common Location row.
TagTables ==
  {<<[TagId |-> id, Type |-> 1, Name |-> n]>> : id \in Ids, n \in TagNames}
   \cup {<<[TagId |-> id1, Type |-> 1, Name |-> n1], [TagId |-> id2, Type |-> 1, Name |-> n2]>> :
           id1 \in Ids, id2 \in Ids, n1 \in TagNames, n2 \in TagNames}

WellFormedTags(tags) ==
  Len(tags) = 2 => tags[1].TagId < tags[2].TagId /\ tags[1].Name # tags[2].Name

TagMapTables(tags) ==
  {<<>>}
   \cup {<<[TagMapId |-> id, PlaylistItemId |-> Null, LocationId |-> 1, NoteId |-> Null,
            TagId |-> tags[t].TagId, Position |-> 0]>> :
           id \in Ids, t \in 1..Len(tags)}

TagSources ==
  UNION {{[EmptySource EXCEPT !.Location = <<LocationRow(1, Genesis1)>>,
                              !.Tag = tags, !.TagMap = maps] :
            maps \in TagMapTables(tags)} : tags \in {t \in TagTables : WellFormedTags(t)}}

\* Sources with one highlight and the ranges it covers.
BlockRangeTables(mark) ==
  {<<>>} \cup {<<[BlockRangeId |-> id, Identifier |-> 1, UserMarkId |-> mark.UserMarkId]>> :
                 id \in Ids}

BlockRangeSources ==
  UNION {{[EmptySource EXCEPT !.Location = <<LocationRow(1, Genesis1)>>,
                              !.UserMark = marks, !.BlockRange = ranges] :
            ranges \in BlockRangeTables(marks[1])} : marks \in UserMarkTables \ {<<>>}}

\* The same with one common highlight, for runs over three sources.
\* One of them has two ranges.
TwoRanges ==
  <<[BlockRangeId |-> 1, Identifier |-> 1, UserMarkId |-> 1],
    [BlockRangeId |-> 2, Identifier |-> 2, UserMarkId |-> 1]>>

RangedSources ==
  {s \in BlockRangeSources : s.UserMark = HighlightOn(1)}
   \cup {[EmptySource EXCEPT !.Location = <<LocationRow(1, Genesis1)>>,
                             !.UserMark = HighlightOn(1), !.BlockRange = TwoRanges]}

\* Archives with media entries beside the manifest and the database.
MediaNames == {"a.jpg", "b.jpg"}

MediaContents == {"image-1", "image-2"}

MediaEntries == {[name |-> n, data |-> d] : n \in MediaNames, d \in MediaContents}

MediaLists ==
  {<<>>, <<[name |-> "media/", data |-> ""]>>}
   \cup {<<e>> : e \in MediaEntries}
   \cup {<<e1, e2>> : e1 \in MediaEntries, e2 \in MediaEntries}

DistinctNames(entries) ==
  \A i \in DOMAIN entries : \A j \in DOMAIN entries : i # j => entries[i].name # entries[j].name

MediaSources ==
  {[EmptySource EXCEPT !.zip = ManifestAndDatabase \o entries] :
     entries \in {m \in MediaLists : DistinctNames(m)}}

\* Two backups with a row in every table, for the runs with a configuration.
RichSource(guid, noteGuid, tagName) ==
  [EmptySource EXCEPT
     !.Location = <<LocationRow(1, Genesis1)>>,
     !.Tag = <<[TagId |-> 1, Type |-> 1, Name |-> tagName]>>,
     !.UserMark = <<[UserMarkId |-> 1, UserMarkGuid |-> guid, LocationId |-> 1]>>,
     !.BlockRange = <<[BlockRangeId |-> 1, Identifier |-> 1, UserMarkId |-> 1]>>,
     !.Note = <<[NoteId |-> 1, Guid |-> noteGuid, UserMarkId |-> 1, LocationId |-> Null]>>,
     !.TagMap = <<[TagMapId |-> 1, PlaylistItemId |-> Null, LocationId |-> 1,
                   NoteId |-> Null, TagId |-> 1, Position |-> 0]>>]

ConfiguredSources ==
  {RichSource("guid-1", "note-1", "Favourites"), RichSource("guid-2", "note-2", "Work")}

\* At most one source of a run carries a highlight in the Location runs.
FewMarks(srcs) ==
  Cardinality({i \in DOMAIN srcs : srcs[i].UserMark # <<>>}) <= 1

\* A source whose Tag table has one more row than the id search has attempts,
\* with the ids 1, 2, ... in a row, and a source with one tag of another name
\* under the id 1.
ManyTags ==
  [i \in 1..(MaxAttempts + 1) |-> [TagId |-> i, Type |-> 1, Name |-> ToString(i)]]

ManyTagsSource == [EmptySource EXCEPT !.Tag = ManyTags]

OneTagSource == [EmptySource EXCEPT !.Tag = <<[TagId |-> 1, Type |-> 1, Name |-> "study"]>>]

SourceLists ==
  {srcs \in [1..2 -> LocationSources] \cup [1..3 -> LocationSources] : FewMarks(srcs)}
   \cup [1..2 -> UntypedSources]
   \cup [1..2 -> ClashingSources] \cup [1..3 -> ClashingSources]
   \cup [1..2 -> HighlightSources]
   \cup [1..2 -> BlockRangeSources] \cup [1..3 -> RangedSources]
   \cup [1..2 -> PublicationSources]
   \cup [1..2 -> NullableSources]
   \cup [1..2 -> BookmarkSources]
   \cup {srcs \in [1..3 -> BookmarkSources] : FewBookmarks(srcs)}
   \cup [1..2 -> PlaylistSources] \cup [1..3 -> PlaylistSources]
   \cup [1..2 -> MediaSources]
   \cup [1..2 -> TagSources]

\* What the client sends: every data type enabled.
AllEnabled ==
  [hasGlobalDataTypes |-> TRUE, globalDataTypes |-> [d \in DataTypeIds |-> "true"]]

\* A configuration with one flag set to a value, the others true.
WithFlag(dataTypeId, flag) ==
  [AllEnabled EXCEPT !.globalDataTypes[dataTypeId] = flag]

\* The configurations of the configured runs: every flag true, globalDataTypes
\* missing, one flag false, one key missing.
MergeConfigs ==
  {AllEnabled, [AllEnabled EXCEPT !.hasGlobalDataTypes = FALSE]}
   \cup {WithFlag(d, "false") : d \in DataTypeIds}
   \cup {WithFlag(d, "undefined") : d \in DataTypeIds}

\* No call of mergeFiles is under way.
NoResult == [success |-> FALSE, blob |-> "none", error |-> "none"]

\* No assessment has been made yet.
NotAssessed == [canHandle |-> FALSE, reason |-> "none"]

\* No call of JWLMerger.mergeFiles is under way.
CallerIdle ==
  /\ managedFiles = <<>>
  /\ canHandle = NotAssessed
  /\ deviceMemory = Null
  /\ webWorkerSupported = TRUE
  /\ apiPc = "idle"
  /\ workerFiles = <<>>
  /\ workerReply = "none"
  /\ mergeResult = NoResult

\* No call of MergeWorkerClient.mergeFiles is under way.
ClientIdle ==
  /\ promise = "none"
  /\ clientPc = "idle"
  /\ worker = "none"
  /\ delivered = 0
  /\ filesReadable = TRUE

ApiIdle ==
  /\ ClientIdle
  /\ CallerIdle

\* The merge messages one worker takes.
MaxRuns == 2

\* The sources of a run that follows another in the same worker.
RerunSources ==
  {[EmptySource EXCEPT !.Location = <<LocationRow(id, c)>>,
                       !.UserMark = IF marked THEN HighlightOn(id) ELSE <<>>] :
     id \in Ids, c \in {Genesis1, Genesis2}, marked \in BOOLEAN}

RerunSourceLists == [1..2 -> RerunSources]

\* self.onmessage takes another message of type 'merge' after the run before
\* it has ended: processMerge starts again in the same worker, clears the
\* registry and builds everything else anew.
onmessageMerge ==
  /\ pc \in {"done", "failed"}
  /\ runs < MaxRuns
  /\ runs' = runs + 1
  /\ earlierMappings' = idMappings
  /\ idMappings' = clear(idMappings)
  /\ sources' \in RerunSourceLists
  /\ mergeConfig' = AllEnabled
  /\ targetDb' = [t \in TableNames |-> {}]
  /\ pc' = "locationPhase1"
  /\ allLocations' = <<>>
  /\ globalContentMap' = EmptyMap
  /\ usedLocationIds' = {}
  /\ finalLocationId' = <<>>
  /\ locIdx' = 1
  /\ tableIdx' = 1
  /\ srcIdx' = 1
  /\ rowIdx' = 1
  /\ idOffset' = 0
  /\ nextAvailableId' = Null
  /\ written' = {}
  /\ posted' = <<>>
  /\ mergedMediaFiles' = EmptyMap
  /\ openDatabases' = [sources |-> DOMAIN sources', merged |-> TRUE]
  /\ cancelRequested' = FALSE
  /\ UNCHANGED <<secondRun, apiVars>>

\* The worker when processMerge has loaded the archives.
StartOfRun ==
  /\ targetDb = [t \in TableNames |-> {}]
  /\ idMappings = NoMappings
  /\ pc = "locationPhase1"
  /\ allLocations = <<>>
  /\ globalContentMap = EmptyMap
  /\ usedLocationIds = {}
  /\ finalLocationId = <<>>
  /\ locIdx = 1
  /\ tableIdx = 1
  /\ srcIdx = 1
  /\ rowIdx = 1
  /\ idOffset = 0
  /\ nextAvailableId = Null
  /\ written = {}
  /\ posted = <<>>
  /\ mergedMediaFiles = EmptyMap
  /\ openDatabases = [sources |-> DOMAIN sources, merged |-> TRUE]
  /\ cancelRequested = FALSE
  /\ runs = 1
  /\ earlierMappings = NoMappings
  /\ secondRun = "none"
  /\ ApiIdle

Init ==
  /\ \/ sources \in SourceLists /\ mergeConfig = AllEnabled
     \/ sources \in [1..2 -> ConfiguredSources] /\ mergeConfig \in MergeConfigs
  /\ StartOfRun

\* Runs over a long Tag table, beside runs over short tables.
ManySourceLists ==
  {<<ManyTagsSource, OneTagSource>>}
   \cup [1..2 -> ClashingSources] \cup [1..2 -> MediaSources]

InitMany ==
  /\ sources \in ManySourceLists
  /\ mergeConfig = AllEnabled
  /\ StartOfRun

Next ==
  \/ mergeLocationDataPhase1
  \/ mergeLocationDataPhase2
  \/ processMergeNextTable
  \/ mergeTableDataRow
  \/ mergeTableDataNextSource
  \/ processMergeMedia
  \/ processMergeFinish
  \/ onmessageCancel
  \/ onmessageMerge

Spec == Init /\ [][Next]_vars

SpecMany == InitMany /\ [][Next]_vars

-----------------------------------------------------------------------------
(* JWLMerger.mergeFiles (lib/merge/merge-logic.ts): the caller's side of a *)
(* merge.  A managed file is read here through two facts: whether any of   *)
(* its data types is enabled, and whether it is a readable archive.  The   *)
(* worker is seen through the way the worker client's promise settles.     *)

\* managedFiles.filter(file => file.dataTypes.some(dt => dt.enabled))
validFiles(files) == SelectSeq(files, LAMBDA f : f.enabled)

Failure(message) == [success |-> FALSE, blob |-> "none", error |-> message]

\* JSZip.loadAsync throws on a file that is not an archive.
AllReadable(files) == \A i \in 1..Len(files) : files[i].readable

\* validFiles.reduce((sum, file) => sum + file.file.size, 0)
RECURSIVE TotalSize(_)
TotalSize(files) ==
  IF files = <<>> THEN 0 ELSE Head(files).size + TotalSize(Tail(files))

\* 1024 * 1024 bytes.
MiB == 1048576

\* sizeMB > n is totalSizeBytes > n * MiB; `deviceMemoryGB &&` is false for an
\* undefined memory and for 0.
canHandleClientMerge(totalSizeBytes, deviceMemoryGB) ==
  IF totalSizeBytes > 200 * MiB
  THEN [canHandle |-> FALSE,
        reason |-> "Files too large for browser processing (>200MB)"]
  ELSE IF deviceMemoryGB # Null /\ deviceMemoryGB # 0 /\ deviceMemoryGB < 2
          /\ totalSizeBytes > 30 * MiB
  THEN [canHandle |-> FALSE, reason |-> "Insufficient device memory for large files"]
  ELSE IF deviceMemoryGB # Null /\ deviceMemoryGB # 0 /\ deviceMemoryGB < 4
          /\ totalSizeBytes > 75 * MiB
  THEN [canHandle |-> FALSE, reason |-> "Device memory may be insufficient"]
  ELSE [canHandle |-> TRUE, reason |-> "Suitable for client-side processing"]

\* The assessment mergeFilesClientSide asks for.
Assessment == canHandleClientMerge(TotalSize(validFiles(managedFiles)), deviceMemory)

\* Validation and dispatch: the checks of mergeFilesClientSide up to the
\* call of the worker client, which sends the valid files to the worker.
mergeFilesClientSide ==
  /\ apiPc = "start"
  /\ IF Len(managedFiles) < 2
     THEN /\ mergeResult' = Failure("At least 2 files are required for merging")
          /\ apiPc' = "returned"
          /\ UNCHANGED <<workerFiles, canHandle>>
     ELSE IF Len(validFiles(managedFiles)) = 0
     THEN /\ mergeResult' = Failure("No files have enabled data types")
          /\ apiPc' = "returned"
          /\ UNCHANGED <<workerFiles, canHandle>>
     ELSE /\ canHandle' = Assessment
          /\ IF ~Assessment.canHandle
             THEN /\ mergeResult' =
                       Failure("Client-side processing not suitable: "
                                 \o Assessment.reason)
                  /\ apiPc' = "returned"
                  /\ UNCHANGED workerFiles
             ELSE IF webWorkerSupported
             THEN /\ workerFiles' = validFiles(managedFiles)
                  /\ apiPc' = "worker"
                  /\ UNCHANGED mergeResult
             ELSE /\ apiPc' = "fallback"
                  /\ UNCHANGED <<workerFiles, mergeResult>>
  /\ UNCHANGED <<managedFiles, deviceMemory, webWorkerSupported, workerReply>>
  /\ UNCHANGED <<clientVars, workerVars>>

\* The worker posts success with a result: the promise resolves and the
\* result's archive is returned.
workerClientResolves ==
  /\ apiPc = "worker"
  /\ AllReadable(workerFiles)
  /\ workerReply' = "success"
  /\ mergeResult' = [success |-> TRUE, blob |-> "merged", error |-> "none"]
  /\ apiPc' = "returned"
  /\ UNCHANGED <<managedFiles, canHandle, deviceMemory, webWorkerSupported, workerFiles>>
  /\ UNCHANGED <<clientVars, workerVars>>

\* The worker posts an error, posts success without a result, or the worker
\* object raises onerror: the promise rejects, the catch block logs and
\* control falls through to the fallback.
WorkerFailures == {"error", "noResult", "onerror"}

workerClientRejects ==
  /\ apiPc = "worker"
  /\ workerReply' \in WorkerFailures
  /\ apiPc' = "fallback"
  /\ UNCHANGED <<managedFiles, canHandle, deviceMemory, webWorkerSupported, workerFiles, mergeResult>>
  /\ UNCHANGED <<clientVars, workerVars>>

\* The fallback: reads each valid file's archive, then returns an archive
\* made of a new manifest and a 1024-byte placeholder for userData.db.
fallbackMerge ==
  /\ apiPc = "fallback"
  /\ mergeResult' =
       IF AllReadable(validFiles(managedFiles))
       THEN [success |-> TRUE, blob |-> "placeholder", error |-> "none"]
       ELSE Failure("thrown")
  /\ apiPc' = "returned"
  /\ UNCHANGED <<managedFiles, canHandle, deviceMemory, webWorkerSupported, workerFiles, workerReply>>
  /\ UNCHANGED <<clientVars, workerVars>>

\* The worker's variables while only the caller's side is looked at.
WorkerIdle ==
  /\ sources = <<>>
  /\ mergeConfig = AllEnabled
  /\ targetDb = [t \in TableNames |-> {}]
  /\ idMappings = NoMappings
  /\ pc = "idle"
  /\ allLocations = <<>>
  /\ globalContentMap = EmptyMap
  /\ usedLocationIds = {}
  /\ finalLocationId = <<>>
  /\ locIdx = 1
  /\ tableIdx = 1
  /\ srcIdx = 1
  /\ rowIdx = 1
  /\ idOffset = 0
  /\ nextAvailableId = Null
  /\ written = {}
  /\ posted = <<>>
  /\ mergedMediaFiles = EmptyMap
  /\ openDatabases = AllClosed
  /\ cancelRequested = FALSE
  /\ runs = 0
  /\ earlierMappings = NoMappings
  /\ secondRun = "none"

MaxFiles == 3

\* File sizes in bytes.
FileSizes == {5 * MiB, 10 * MiB, 45 * MiB, 201 * MiB}

\* navigator.deviceMemory in GB, Null where the browser does not tell.
DeviceMemories == {Null, 1, 2, 4, 8}

ManagedFiles == [enabled : BOOLEAN, readable : BOOLEAN, size : FileSizes]

ManagedFileLists == UNION {[1..n -> ManagedFiles] : n \in 0..MaxFiles}

InitApi ==
  /\ managedFiles \in ManagedFileLists
  /\ canHandle = NotAssessed
  /\ deviceMemory \in DeviceMemories
  /\ webWorkerSupported \in BOOLEAN
  /\ apiPc = "start"
  /\ workerFiles = <<>>
  /\ workerReply = "none"
  /\ mergeResult = NoResult
  /\ ClientIdle
  /\ WorkerIdle

NextApi ==
  \/ mergeFilesClientSide
  \/ workerClientResolves
  \/ workerClientRejects
  \/ fallbackMerge

SpecApi == InitApi /\ [][NextApi]_vars

-----------------------------------------------------------------------------
(* MergeWorkerClient.mergeFiles (lib/workers/merge-worker-client.ts): the  *)
(* promise it returns, the worker it creates, the files it reads and the  *)
(* messages of the worker it handles.                                     *)

\* The archives of the calls looked at.
ClientSourceLists ==
  [1..2 -> ClashingSources] \cup [1..2 -> MediaSources] \cup [1..2 -> RangedSources]

\* mergeFiles: the promise is created, the worker is created and its handlers
\* are set.  The worker script's importScripts calls load or throw.
mergeFiles ==
  /\ clientPc = "start"
  /\ promise' = "pending"
  /\ worker' \in {"running", "broken"}
  /\ clientPc' = "preparing"
  /\ UNCHANGED <<delivered, filesReadable>>
  /\ UNCHANGED <<callerVars, workerVars>>

\* The worker takes the 'merge' message: processMerge starts and loads the
\* archives.
processMergeStart(srcs) ==
  /\ sources' = srcs
  /\ mergeConfig' = AllEnabled
  /\ pc' = "locationPhase1"
  /\ openDatabases' = [sources |-> DOMAIN srcs, merged |-> TRUE]
  /\ runs' = 1
  /\ UNCHANGED <<targetDb, idMappings, allLocations, globalContentMap,
                 usedLocationIds, finalLocationId, locIdx, tableIdx, srcIdx, rowIdx,
                 idOffset, nextAvailableId, written, posted, mergedMediaFiles,
                 cancelRequested, earlierMappings, secondRun>>

\* prepareAndSendFiles, called with `void`: it reads every file and posts the
\* 'merge' message; when a read rejects, its catch block terminates the
\* worker and throws an Error that nothing awaits.
prepareAndSendFiles ==
  /\ clientPc = "preparing"
  /\ IF ~filesReadable
     THEN /\ worker' = "terminated"
          /\ clientPc' = "thrown"
          /\ UNCHANGED workerVars
     ELSE /\ clientPc' = "sent"
          /\ UNCHANGED worker
          /\ IF worker = "running"
             THEN \E srcs \in ClientSourceLists : processMergeStart(srcs)
             ELSE UNCHANGED workerVars
  /\ UNCHANGED <<promise, delivered, filesReadable, callerVars>>

\* worker.onmessage: 'success' with a result resolves the promise, 'error'
\* rejects it, both after cleanup; anything else leaves it as it is.
workerOnmessage ==
  /\ worker = "running"
  /\ delivered < Len(posted)
  /\ delivered' = delivered + 1
  /\ LET type == posted[delivered + 1].type
     IN IF type = "success"
        THEN worker' = "terminated" /\ promise' = "resolved"
        ELSE IF type = "error"
        THEN worker' = "terminated" /\ promise' = "rejected"
        ELSE UNCHANGED <<worker, promise>>
  /\ UNCHANGED <<clientPc, filesReadable, callerVars, workerVars>>

\* worker.onerror: the worker script threw outside a promise (its imports
\* failed); the promise is rejected after cleanup.
workerOnerror ==
  /\ worker = "broken"
  /\ worker' = "terminated"
  /\ promise' = "rejected"
  /\ UNCHANGED <<clientPc, delivered, filesReadable, callerVars, workerVars>>

InitClient ==
  /\ CallerIdle
  /\ WorkerIdle
  /\ promise = "none"
  /\ clientPc = "start"
  /\ worker = "none"
  /\ delivered = 0
  /\ filesReadable \in BOOLEAN

NextClient ==
  \/ mergeFiles
  \/ prepareAndSendFiles
  \/ workerOnmessage
  \/ workerOnerror
  \/ mergeLocationDataPhase1
  \/ mergeLocationDataPhase2
  \/ processMergeNextTable
  \/ mergeTableDataRow
  \/ mergeTableDataNextSource
  \/ processMergeMedia
  \/ processMergeFinish

\* The event loops of the page and of the worker run every task that is
\* ready, and processMerge goes on from every await that resolves.
SpecClient == InitClient /\ [][NextClient]_vars /\ WF_vars(NextClient)

-----------------------------------------------------------------------------
(* Properties of a merge run.                                              *)

Signature(row) == createLocationConstraintSignature(row)

\* mergeLocationData has returned and processMerge went on.
LocationsMerged == pc \in {"tables", "mergeTable", "media", "finish", "done"}

\* The row of a source's table with a given primary key.
SourceRow(s, tableName, id) ==
  LET rows == sources[s][tableName]
  IN rows[CHOOSE i \in 1..Len(rows) : RowId(tableName, rows[i]) = id]

TargetRows(tableName, id) == {r \in targetDb[tableName] : RowId(tableName, r) = id}

AllSourceLocations ==
  UNION {{sources[s].Location[i] : i \in 1..Len(sources[s].Location)} : s \in 1..Len(sources)}

AllSignatures == {Signature(r) : r \in AllSourceLocations}

\* The history records the step from one state to the next has added.
NewlyWritten == written' \ written

\* C1: every UserMark row inserted into the target points at a target Location
\* row with the same identity signature as the Location row it pointed at in
\* its own source; a registry entry made for one source's Location row is never
\* applied to a row of another source.
C1_CrossSourceReference ==
  \A w \in written :
    (w.table = "UserMark" /\ w.outcome = "inserted") =>
      \E u \in TargetRows("UserMark", w.id) :
        \E l \in TargetRows("Location", u.LocationId) :
          Signature(l) = Signature(SourceRow(w.source, "Location", w.original.LocationId))

\* C2: once mergeLocationData has finished, for every Location row of every
\* source either the target holds a row with the same id and the same
\* signature, or the registry maps its id to the target row with that signature.
C2_LocationResolved ==
  LocationsMerged =>
    \A s \in 1..Len(sources) :
      \A i \in 1..Len(sources[s].Location) :
        LET row == sources[s].Location[i]
        IN \/ \E l \in TargetRows("Location", row.LocationId) :
                Signature(l) = Signature(row)
           \/ /\ HasMapping(idMappings, "Location", row.LocationId)
              /\ \E l \in TargetRows("Location", idMappings["Location"][row.LocationId]) :
                   Signature(l) = Signature(row)

\* A later occurrence of a signature: some earlier collected row carries it too.
IsLaterOccurrence(i) ==
  \E j \in 1..(i - 1) : allLocations[j].contentSignature = allLocations[i].contentSignature

\* C3: once mergeLocationData has finished, every signature of any source's
\* Location table is on exactly one row of the target's Location table, the
\* number of inserted rows is the number of distinct signatures, and every
\* occurrence after the first was skipped, not inserted.
C3_OneRowPerSignature ==
  LocationsMerged =>
    /\ \A sig \in AllSignatures :
         Cardinality({l \in targetDb["Location"] : Signature(l) = sig}) = 1
    /\ Cardinality(targetDb["Location"]) = Cardinality(AllSignatures)
    /\ Cardinality({w \in written : w.table = "Location" /\ w.outcome = "inserted"})
         = Cardinality(AllSignatures)
    /\ \A i \in 1..Len(allLocations) :
         IsLaterOccurrence(i) =>
           /\ \E w \in written :
                /\ w.table = "Location" /\ w.source = allLocations[i].sourceDb
                /\ w.original = allLocations[i].row /\ w.outcome = "duplicate"
           /\ ~\E w \in written :
                /\ w.table = "Location" /\ w.source = allLocations[i].sourceDb
                /\ w.original = allLocations[i].row /\ w.outcome = "inserted"

\* Three sources, a signature met twice, and two rows in the target.
C3_Witness ==
  /\ pc = "tables"
  /\ Len(sources) > 2
  /\ Cardinality(targetDb["Location"]) > 1
  /\ \E w \in written : w.table = "Location" /\ w.outcome = "duplicate"

C5_FreshIdIsMapped ==
  [][\A w \in NewlyWritten :
       (/\ w.table # "Location"
        /\ isGuidOrCompositeUniqueTable(w.table)
        /\ w.outcome = "inserted"
        /\ w.id # RowId(w.table, w.original)
        /\ IdExists(targetDb', w.table, w.id)) =>
         /\ HasMapping(idMappings', w.table, RowId(w.table, w.original))
         /\ idMappings'[w.table][RowId(w.table, w.original)] = w.id]_vars

\* C6: whenever a UserMark, Note or Tag row of a source is skipped because an
\* identity rule matches a target row with another id, the registry afterwards
\* maps the skipped row's id to the surviving row's id.
C6_SkippedRowIsMapped ==
  [][\A w \in NewlyWritten :
       (/\ w.table \in {"UserMark", "Note", "Tag"}
        /\ w.outcome = "duplicate"
        /\ w.id # RowId(w.table, w.original)) =>
         /\ HasMapping(idMappings', w.table, RowId(w.table, w.original))
         /\ idMappings'[w.table][RowId(w.table, w.original)] = w.id]_vars

\* C7: for every Tag row skipped as a (Type, Name) duplicate of a target Tag t
\* the target keeps one Tag row for that (Type, Name) and the registry maps the
\* skipped id to t; every TagMap row written to the target carries the id of
\* the target Tag that has the (Type, Name) of the Tag it referenced in its own
\* source, so another source's entry never rewrites it.
C7_TagMapFollowsItsTag ==
  [][/\ \A t1 \in targetDb'["Tag"] : \A t2 \in targetDb'["Tag"] :
          (t1.Type = t2.Type /\ t1.Name = t2.Name) => t1 = t2
     /\ \A w \in NewlyWritten :
          (w.table = "Tag" /\ w.outcome = "duplicate") =>
            /\ HasMapping(idMappings', "Tag", w.original.TagId)
            /\ idMappings'["Tag"][w.original.TagId] = w.id
     /\ \A w \in NewlyWritten :
          (w.table = "TagMap" /\ w.outcome = "inserted") =>
            \E m \in {r \in targetDb'["TagMap"] : r.TagMapId = w.id} :
              \E t \in {r \in targetDb'["Tag"] : r.TagId = m.TagId} :
                /\ t.Type = SourceRow(w.source, "Tag", w.original.TagId).Type
                /\ t.Name = SourceRow(w.source, "Tag", w.original.TagId).Name]_vars

\* C8: a TagMap source row is skipped exactly when, with its foreign keys
\* rewritten through the registry, it matches a target TagMap row on
\* (TagId, Position), (TagId, LocationId) or (TagId, NoteId).
C8_TagMapSkipIffRewrittenMatch ==
  [][\A w \in NewlyWritten :
       w.table = "TagMap" =>
         (w.outcome # "inserted"
            <=> TagMapDuplicate(targetDb,
                  updateForeignKeyReferences(w.original, "TagMap", idMappings)))]_vars

\* C9: with internally consistent sources and every data type enabled, after
\* the merge every non-null foreign key of every target row is the primary key
\* of a row of the referenced target table.
C9_ForeignKeyClosure ==
  (pc = "done" /\ mergeConfig = AllEnabled) =>
    \A t \in {"UserMark", "Note", "TagMap"} :
      \A r \in targetDb[t] :
        \A fk \in foreignKeyMappings(t) :
          r[fk[1]] # Null =>
            fk[2] \in TableNames /\ IdExists(targetDb, fk[2], r[fk[1]])

\* The report of validateMergeIntegrity in the success message.
Validation == posted[Len(posted)].validation

\* C10: for every merge of internally consistent sources validateMergeIntegrity
\* reports no orphaned UserMark, no orphaned Note and no duplicate Location,
\* and the validator's SQL signature groups no two target Location rows that
\* createLocationConstraintSignature kept apart.
C10_ValidatorReportsClean ==
  pc = "done" =>
    /\ Validation.orphanedUserMarks = 0
    /\ Validation.orphanedNotes = 0
    /\ Validation.duplicateLocations = 0
    /\ \A l1 \in targetDb["Location"] : \A l2 \in targetDb["Location"] :
         Signature(l1) # Signature(l2) =>
           SqlConstraintSignature(l1) # SqlConstraintSignature(l2)

-----------------------------------------------------------------------------
(* A whole run as a function of the source list and the configuration:     *)
(* the same statements as the actions above, folded over the loops, so     *)
(* that the targets of two source orders can be compared.                  *)

RECURSIVE CollectLocationsOf(_, _)
CollectLocationsOf(srcs, s) ==
  IF s > Len(srcs) THEN <<>>
  ELSE [i \in 1..Len(srcs[s].Location) |->
          [row |-> srcs[s].Location[i],
           sourceDb |-> s,
           originalLocationId |-> srcs[s].Location[i].LocationId,
           contentSignature |-> createLocationConstraintSignature(srcs[s].Location[i])]]
       \o CollectLocationsOf(srcs, s + 1)

\* Phase 2 from row i on; st = [db, mappings, used, final, failed].
RECURSIVE InsertLocations(_, _, _)
InsertLocations(all, st, i) ==
  IF i > Len(all) \/ st.failed THEN st
  ELSE LET info == all[i]
           first == FirstOccurrence(all, info.contentSignature)
           firstId == IF st.final[first] = Null \/ st.final[first] = 0
                      THEN all[first].originalLocationId
                      ELSE st.final[first]
           finalId == NextFreeLocationId(st.used, info.originalLocationId)
           adjustedRow == [info.row EXCEPT !.LocationId = finalId]
       IN IF first # i
          THEN InsertLocations(all,
                 [st EXCEPT !.mappings = DuplicateLocationMapping(st.mappings,
                                            info.originalLocationId, firstId)],
                 i + 1)
          ELSE IF LocationInsertThrows(st.db, adjustedRow)
          THEN [st EXCEPT !.failed = TRUE]
          ELSE InsertLocations(all,
                 [st EXCEPT !.db = InsertRow(st.db, "Location", adjustedRow),
                            !.used = @ \cup {finalId},
                            !.final[i] = finalId,
                            !.mappings = InsertedLocationMapping(st.mappings,
                                            info.originalLocationId, finalId)],
                 i + 1)

mergeLocationData(srcs) ==
  LET all == CollectLocationsOf(srcs, 1)
  IN InsertLocations(all,
       [db |-> [t \in TableNames |-> {}], mappings |-> NoMappings, used |-> {},
        final |-> [i \in 1..Len(all) |-> Null], failed |-> FALSE],
       1)

\* The rows of one source from row i on; st = [db, mappings, nextId, offset].
RECURSIVE MergeRows(_, _, _, _)
MergeRows(st, tableName, rows, i) ==
  IF i > Len(rows) THEN st
  ELSE LET res == ProcessRow(st.db, st.mappings, tableName, rows[i], st.nextId, st.offset)
       IN MergeRows([st EXCEPT !.db = res.db, !.mappings = res.mappings,
                               !.nextId = res.nextId],
                    tableName, rows, i + 1)

RECURSIVE MergeSources(_, _, _, _)
MergeSources(st, tableName, srcs, s) ==
  IF s > Len(srcs) THEN st
  ELSE LET after == MergeRows(st, tableName, srcs[s][tableName], 1)
       IN MergeSources([after EXCEPT !.offset =
                           NextIdOffset(tableName, srcs[s][tableName], after.offset)],
                       tableName, srcs, s + 1)

mergeTableData(db, mappings, tableName, srcs) ==
  MergeSources([db |-> db, mappings |-> mappings,
                nextId |-> IF isGuidOrCompositeUniqueTable(tableName)
                           THEN InitialNextAvailableId(db, tableName)
                           ELSE Null,
                offset |-> 0],
               tableName, srcs, 1)

RECURSIVE MergeTables(_, _, _, _, _)
MergeTables(db, mappings, srcs, config, k) ==
  IF k > Len(tablesToMerge) THEN [db |-> db, mappings |-> mappings, failed |-> FALSE]
  ELSE IF shouldIncludeDataType(tablesToMerge[k], config)
  THEN LET st == mergeTableData(db, mappings, tablesToMerge[k], srcs)
       IN MergeTables(st.db, st.mappings, srcs, config, k + 1)
  ELSE MergeTables(db, mappings, srcs, config, k + 1)

\* The target database and the registry of a run, or failed.
processMerge(srcs, config) ==
  LET locations == mergeLocationData(srcs)
  IN IF locations.failed
     THEN [db |-> locations.db, mappings |-> locations.mappings, failed |-> TRUE]
     ELSE MergeTables(locations.db, locations.mappings, srcs, config, 1)

\* The fold and the stepwise run end in the same target and the same registry.
FoldAgreesWithRun ==
  LET run == processMerge(sources, mergeConfig)
  IN /\ pc = "done" => (~run.failed /\ run.db = targetDb /\ run.mappings = idMappings)
     /\ pc = "failed" => run.failed

-----------------------------------------------------------------------------
(* A second 'merge' message while processMerge waits.  The handler starts  *)
(* a second processMerge in the same worker; its databases and counters    *)
(* are its own, the registry is the one of the module.  What the second    *)
(* run posts when it ends is not looked at.                                *)

\* The registry after the merge phase of a run over srcs that finds the
\* registry as mappings: mergeLocationData, then mergeTableData table by table.
MergePhaseRegistry(srcs, mappings) ==
  LET all == CollectLocationsOf(srcs, 1)
      locations == InsertLocations(all,
                     [db |-> [t \in TableNames |-> {}], mappings |-> mappings,
                      used |-> {}, final |-> [i \in 1..Len(all) |-> Null],
                      failed |-> FALSE],
                     1)
  IN IF locations.failed THEN locations.mappings
     ELSE MergeTables(locations.db, locations.mappings, srcs, AllEnabled, 1).mappings

\* self.onmessage takes a 'merge' message while processMerge is at an await:
\* a second processMerge starts, clears the registry and waits for its
\* archives to load.
onmessageMergeDuringRun ==
  /\ AtAwait
  /\ secondRun = "none"
  /\ secondRun' = "loading"
  /\ idMappings' = clear(idMappings)
  /\ UNCHANGED <<sources, mergeConfig, targetDb, pc, allLocations, globalContentMap,
                 usedLocationIds, finalLocationId, locIdx, tableIdx, srcIdx, rowIdx,
                 idOffset, nextAvailableId, written, posted, mergedMediaFiles,
                 openDatabases, cancelRequested, runs, earlierMappings>>
  /\ UNCHANGED apiVars

\* The second run's archives are loaded while the first run is at an await:
\* its mergeLocationData and mergeTableData run, up to its next await.
secondRunMerges ==
  /\ AtAwait
  /\ secondRun = "loading"
  /\ secondRun' = "merged"
  /\ \E srcs \in RerunSourceLists : idMappings' = MergePhaseRegistry(srcs, idMappings)
  /\ UNCHANGED <<sources, mergeConfig, targetDb, pc, allLocations, globalContentMap,
                 usedLocationIds, finalLocationId, locIdx, tableIdx, srcIdx, rowIdx,
                 idOffset, nextAvailableId, written, posted, mergedMediaFiles,
                 openDatabases, cancelRequested, runs, earlierMappings>>
  /\ UNCHANGED apiVars

\* The runs that a second message can overlap.
InitOverlap ==
  /\ sources \in {srcs \in [1..2 -> LocationSources] : FewMarks(srcs)}
  /\ mergeConfig = AllEnabled
  /\ StartOfRun

NextOverlap ==
  \/ Next
  \/ onmessageMergeDuringRun
  \/ secondRunMerges

SpecOverlap == InitOverlap /\ [][NextOverlap]_vars

-----------------------------------------------------------------------------
(* Algebraic properties of a whole run.                                    *)

\* The run has merged the same source twice with every data type enabled.
MergedWithItself ==
  /\ pc = "done"
  /\ Len(sources) = 2
  /\ sources[1] = sources[2]
  /\ mergeConfig = AllEnabled

\* C11: merging a source A with itself yields a target in which every row of
\* A appears exactly once in every table, the tables whose ids are shifted by
\* the per-source offset (BlockRange) included: no table of the target has
\* more or fewer rows than A's.
C11_Idempotence ==
  MergedWithItself =>
    \A t \in TableNames : Cardinality(targetDb[t]) = Len(sources[1][t])

TagIdentity(row) == ToString(row.Type) \o "|" \o row.Name

\* The identity of a row of a table that is identified by its own columns.
KeyedIdentity(tableName, row) ==
  CASE tableName = "Location" -> Signature(row)
    [] tableName = "Tag"      -> TagIdentity(row)
    [] tableName = "UserMark" -> row.UserMarkGuid
    [] tableName = "Note"     -> row.Guid

\* The row of a table a foreign key value names, read as its identity.
ReferencedIdentity(db, tableName, id) ==
  IF id = Null THEN "NULL"
  ELSE IF \E r \in db[tableName] : RowId(tableName, r) = id
  THEN KeyedIdentity(tableName, CHOOSE r \in db[tableName] : RowId(tableName, r) = id)
  ELSE "dangling"

\* The identity signature of a row of the target: Location by its constraint
\* signature, Tag by (Type, Name), UserMark and Note by GUID, the dependent
\* tables by their own content and the identities of the rows they reference.
IdentitySignature(db, tableName, row) ==
  CASE tableName \in {"Location", "Tag", "UserMark", "Note"} -> KeyedIdentity(tableName, row)
    [] tableName = "BlockRange" ->
         ToString(row.Identifier) \o "@"
           \o ReferencedIdentity(db, "UserMark", row.UserMarkId)
    [] tableName = "PlaylistItem" -> row.Label \o "@" \o row.ThumbnailFilePath
    [] tableName = "TagMap" ->
         ReferencedIdentity(db, "Tag", row.TagId) \o "@"
           \o ReferencedIdentity(db, "Location", row.LocationId) \o "@"
           \o ReferencedIdentity(db, "Note", row.NoteId) \o "@"
           \o ToString(row.Position)
    [] OTHER -> "row"

\* The multiset of identity signatures of a table: signature -> number of rows.
IdentityBag(db, tableName) ==
  LET sigs == {IdentitySignature(db, tableName, r) : r \in db[tableName]}
  IN [sig \in sigs |->
        Cardinality({r \in db[tableName] : IdentitySignature(db, tableName, r) = sig})]

SameIdentities(db1, db2) ==
  \A t \in TableNames : IdentityBag(db1, t) = IdentityBag(db2, t)

\* The orders of a source list.
SourceOrders(n) ==
  {p \in [1..n -> 1..n] : \A i \in 1..n : \A j \in 1..n : p[i] = p[j] => i = j}

Permuted(srcs, p) == [i \in 1..Len(srcs) |-> srcs[p[i]]]

\* C12: for any permutation of the same sources the multiset of identity
\* signatures of the rows of the target is the same in every table (Location
\* signatures, Tag (Type, Name), UserMark and Note GUIDs, dependent rows read
\* through the rows they reference); only primary keys may differ.
C12_CommutativityOfIdentity ==
  pc = "done" =>
    \A p \in SourceOrders(Len(sources)) :
      LET other == processMerge(Permuted(sources, p), mergeConfig)
      IN ~other.failed => SameIdentities(targetDb, other.db)

\* The number of rows the sources hold in a table.
SourceRowCount(tableName) ==
  SumOver([s \in 1..Len(sources) |-> Len(sources[s][tableName])], 1..Len(sources))

InsertedRecords(tableName) ==
  {w \in written : w.table = tableName /\ w.outcome = "inserted"}

\* C13: in every state of a run, for every table T the target holds at most
\* as many rows of T as the sources hold together; every row of the target
\* was inserted for a source row, and no source row was inserted twice.
C13_RowCountBounded ==
  \A t \in TableNames :
    /\ Cardinality(targetDb[t]) <= SourceRowCount(t)
    /\ \A r \in targetDb[t] : \E w \in InsertedRecords(t) : w.id = RowId(t, r)
    /\ \A w1 \in InsertedRecords(t) : \A w2 \in InsertedRecords(t) :
         (w1.source = w2.source /\ w1.original = w2.original) => w1 = w2

\* A finished run that kept every source row of a table (the bound is met),
\* and one that dropped a duplicate (the bound is strict).
C13_Witness ==
  /\ pc = "done"
  /\ Cardinality(targetDb.UserMark) = 2
  /\ SourceRowCount("UserMark") = 2
  /\ Cardinality(targetDb.Location) = 1
  /\ SourceRowCount("Location") = 2

-----------------------------------------------------------------------------
(* Order of the tables.                                                    *)

PositionIn(seq, x) == CHOOSE i \in 1..Len(seq) : seq[i] = x

ReferencedTables(tableName) == {fk[2] : fk \in foreignKeyMappings(tableName)}

ForeignKeyTables ==
  {"BlockRange", "UserMark", "Note", "PlaylistItem", "TagMap", "Bookmark",
   "PlaylistItemMarker", "PlaylistItemLocationMap", "PlaylistItemIndependentMediaMap",
   "PlaylistItemMarkerBibleVerseMap", "PlaylistItemMarkerParagraphMap"}

\* Every row of a table of every source has been handled: inserted, skipped
\* as a duplicate with or without a mapping, or dropped by the insert.
AllRowsHandled(tableName) ==
  \A s \in 1..Len(sources) : \A i \in 1..Len(sources[s][tableName]) :
    \E w \in written :
      w.table = tableName /\ w.source = s /\ w.original = sources[s][tableName][i]

\* The table has had its turn in processMerge: Location before the loop, the
\* others at their position in tablesToMerge; a table the configuration
\* includes has then had all its rows handled.
HadItsTurn(tableName) ==
  /\ tableName = "Location" \/ PositionIn(tablesToMerge, tableName) < tableIdx
  /\ shouldIncludeDataType(tableName, mergeConfig) => AllRowsHandled(tableName)

\* C14: for every foreign key (column, R) of a table T, all rows of R of all
\* sources have been handled before the first row of T is; Location comes
\* before every other table; the tables outside the predefined order come
\* after all the tables of that order.  The predefined order itself puts
\* every referenced table before the tables that reference it.
C14_DependencyOrdering ==
  /\ \A t \in ForeignKeyTables : \A r \in ReferencedTables(t) \ {"Location"} :
       PositionIn(getTableMergeOrder, r) < PositionIn(getTableMergeOrder, t)
  /\ pc = "mergeTable" =>
       /\ HadItsTurn("Location")
       /\ \A r \in ReferencedTables(CurrentTable) \cap TableNames : HadItsTurn(r)
       /\ IsUnorderedTable(CurrentTable) =>
            \A r \in TableNames : InSeq(r, getTableMergeOrder) => HadItsTurn(r)

\* The first TagMap row of a run is about to be handled, with the Tag rows,
\* the Note rows and the Location rows of the sources already in the target.
C14_Witness ==
  /\ pc = "mergeTable"
  /\ CurrentTable = "TagMap"
  /\ srcIdx = 1
  /\ rowIdx = 1
  /\ sources[1].TagMap # <<>>
  /\ targetDb.Tag # {}
  /\ targetDb.Location # {}
  /\ \A w \in written : w.table # "TagMap"

-----------------------------------------------------------------------------
(* Data-type gating.                                                       *)

\* The tables each data type stands for.
GatedTables(dataTypeId) ==
  CASE dataTypeId = "highlights"  -> {"UserMark", "BlockRange"}
    [] dataTypeId = "tags"        -> {"Tag", "TagMap"}
    [] dataTypeId = "notes"       -> {"Note"}
    [] dataTypeId = "bookmarks"   -> {"Bookmark"}
    [] dataTypeId = "inputfields" -> {"InputField"}
    [] dataTypeId = "playlists"   ->
         {"PlaylistItem", "PlaylistItemMarker", "PlaylistItemLocationMap",
          "PlaylistItemIndependentMediaMap", "PlaylistItemMarkerBibleVerseMap",
          "PlaylistItemMarkerParagraphMap", "IndependentMedia", "PlaylistItemAccuracy"}

FlagOf(dataTypeId) ==
  IF mergeConfig.hasGlobalDataTypes
  THEN mergeConfig.globalDataTypes[dataTypeId]
  ELSE "undefined"

\* C15: when a configuration flag is false, no row of any table gated by
\* that flag is inserted into the target: highlights covers UserMark and
\* BlockRange, tags covers Tag and TagMap, notes covers Note.
C15_DataTypeGating ==
  \A d \in DataTypeIds :
    FlagOf(d) = "false" =>
      \A t \in GatedTables(d) \cap TableNames : targetDb[t] = {}

\* C16: every data-type flag defaults to true: at the end of a run every
\* table whose flag is not explicitly false (true, key missing from
\* globalDataTypes, or globalDataTypes itself missing) has been merged, all
\* its source rows handled; a table is left out only when its flag is false.
C16_FlagsDefaultToTrue ==
  pc = "done" =>
    \A d \in DataTypeIds :
      FlagOf(d) # "false" =>
        \A t \in GatedTables(d) \cap TableNames : AllRowsHandled(t)

-----------------------------------------------------------------------------
(* Media files.                                                            *)

MediaMerged == pc \in {"finish", "done"}

\* An entry of the first source whose content no earlier entry carried: the
\* merger accepts it, whatever the later sources hold.
AcceptedFromFirstSource(entries, i) ==
  \A j \in 1..(i - 1) : entries[j].data # entries[i].data

\* C17: when entries of different sources have the same file name and
\* different contents, the archive keeps the first one in source order under
\* that name: an entry accepted into the output is never replaced by a later
\* entry.
C17_FirstNameWins ==
  MediaMerged =>
    LET entries == FileEntries(sources[1].zip)
    IN \A i \in 1..Len(entries) :
         AcceptedFromFirstSource(entries, i) =>
           /\ entries[i].name \in DOMAIN mergedMediaFiles
           /\ mergedMediaFiles[entries[i].name] = entries[i].data

-----------------------------------------------------------------------------
(* Failure of a run.                                                       *)

\* C18: when a step of processMerge throws, the worker posts a message of
\* type error, posts no success message for the run, and closes every
\* database session it had opened.
C18_FailureReported ==
  pc = "failed" =>
    /\ \E i \in 1..Len(posted) : posted[i].type = "error"
    /\ \A i \in 1..Len(posted) : posted[i].type # "success"
    /\ openDatabases = AllClosed

-----------------------------------------------------------------------------
(* The result returned to the caller.                                      *)

\* C19: if the worker-based merge fails (the worker reports an error or
\* crashes), mergeFiles returns success = false with an error and no blob,
\* never success = true with an archive no completed merge has produced.
C19_NoArchiveOnFailure ==
  (apiPc = "returned" /\ workerReply \in WorkerFailures) =>
    /\ ~mergeResult.success
    /\ mergeResult.blob = "none"
    /\ mergeResult.error # "none"

\* C20: a merge is never run on fewer than two source archives: the worker
\* is never sent fewer than two files, and when fewer than two files remain
\* after the files without an enabled data type are filtered out, mergeFiles
\* returns an error.
C20_MinimumTwoSources ==
  /\ apiPc \in {"worker", "fallback", "returned"} =>
       (workerFiles # <<>> => Len(workerFiles) >= 2)
  /\ (apiPc = "returned" /\ Len(validFiles(managedFiles)) < 2) =>
       (~mergeResult.success /\ mergeResult.error # "none")

-----------------------------------------------------------------------------
(* Cancellation.                                                           *)

\* C21: once cancellation has been requested during a merge, the engine
\* notices it between tables: no further table is merged, and no success
\* message (no archive) is produced for the run.
C21_CooperativeCancellation ==
  [][cancelRequested =>
       /\ ~(pc = "tables" /\ pc' = "mergeTable")
       /\ \A i \in 1..Len(posted') : posted'[i].type # "success"]_vars

-----------------------------------------------------------------------------
(* Location rows of publications.                                          *)

IsPublication(row) == ~IsBibleChapter(row)

\* Two publication rows that differ in DocumentId and agree on the other
\* identity columns.
DifferInDocumentId(r1, r2) ==
  /\ IsPublication(r1) /\ IsPublication(r2)
  /\ r1.DocumentId # r2.DocumentId
  /\ r1.DocumentId \notin {Null, 0} /\ r2.DocumentId \notin {Null, 0}
  /\ r1.KeySymbol = r2.KeySymbol
  /\ r1.IssueTagNumber = r2.IssueTagNumber
  /\ r1.MepsLanguage = r2.MepsLanguage
  /\ r1.Track = r2.Track
  /\ r1.Type = r2.Type

\* The highlights of a source that were inserted and pointed at a Location id.
InsertedMarksOn(s, locationId) ==
  {u \in written : /\ u.table = "UserMark" /\ u.outcome = "inserted"
                   /\ u.source = s /\ u.original.LocationId = locationId}

\* C22: two publication rows that differ in DocumentId are never treated as
\* duplicates: after the Location merge both are in the target; and in a
\* merge of publication rows a first-occurrence row whose original id was
\* free keeps that id, so the highlights of its source that reference it
\* keep their LocationId.
C22_DocumentsKeptApart ==
  /\ LocationsMerged =>
       \A r1 \in AllSourceLocations : \A r2 \in AllSourceLocations :
         DifferInDocumentId(r1, r2) =>
           \E t1 \in targetDb.Location : \E t2 \in targetDb.Location :
             /\ t1 # t2
             /\ Signature(t1) = Signature(r1)
             /\ Signature(t2) = Signature(r2)
  /\ \A w \in written :
       (/\ w.table = "Location" /\ w.outcome = "inserted"
        /\ \A r \in AllSourceLocations : IsPublication(r)
        /\ w.id = w.original.LocationId) =>
         \A u \in InsertedMarksOn(w.source, w.id) :
           \A t \in TargetRows("UserMark", u.id) : t.LocationId = w.id

-----------------------------------------------------------------------------
(* Allocation of Location ids.                                             *)

TargetLocationIds == {t.LocationId : t \in targetDb.Location}

\* The row a step of phase 2 has inserted.
InsertedLocation == CHOOSE t \in targetDb'.Location : t \notin targetDb.Location

\* C23: when phase 2 inserts a first-occurrence row whose original id is
\* already used by a row inserted before (a row with another signature), the
\* earlier rows stay, the new row gets the smallest id greater than its
\* original id that is not in use, and the registry records original ->
\* final for it; a row whose id is free keeps it.  The ids of the inserted
\* Location rows are pairwise distinct.
C23_LocationIdAllocation ==
  [][(pc = "locationPhase2" /\ targetDb'.Location # targetDb.Location) =>
       LET original == allLocations[locIdx].originalLocationId
           final == InsertedLocation.LocationId
       IN /\ targetDb'.Location = targetDb.Location \cup {InsertedLocation}
          /\ Signature(InsertedLocation) = allLocations[locIdx].contentSignature
          /\ \A t \in targetDb.Location : Signature(t) # Signature(InsertedLocation)
          /\ final \notin TargetLocationIds
          /\ IF original \in TargetLocationIds
             THEN /\ final > original
                  /\ \A k \in (original + 1)..(final - 1) : k \in TargetLocationIds
                  /\ HasMapping(idMappings', "Location", original)
                  /\ idMappings'.Location[original] = final
             ELSE final = original
          /\ Cardinality({t.LocationId : t \in targetDb'.Location})
               = Cardinality(targetDb'.Location)]_vars

\* A row was inserted under an id above its own because its id was taken,
\* with both rows in the target and the entry in the registry.
C23_Witness ==
  \E w \in written :
    /\ w.table = "Location" /\ w.outcome = "inserted"
    /\ w.id > w.original.LocationId
    /\ \E t \in targetDb.Location :
         t.LocationId = w.original.LocationId /\ Signature(t) # Signature(w.original)
    /\ \E t \in targetDb.Location :
         t.LocationId = w.id /\ Signature(t) = Signature(w.original)
    /\ HasMapping(idMappings, "Location", w.original.LocationId)
    /\ idMappings.Location[w.original.LocationId] = w.id

-----------------------------------------------------------------------------
(* Identity of Location rows.                                              *)

\* MepsLanguage with NULL read as 0.
MepsLanguageNorm(row) == IF row.MepsLanguage = Null THEN 0 ELSE row.MepsLanguage

\* The identity rule: a Bible chapter is (BookNumber, ChapterNumber,
\* KeySymbol, MepsLanguage, Type), any other row (KeySymbol, IssueTagNumber,
\* MepsLanguage, DocumentId, Track, Type); NULL equals only NULL, except in
\* MepsLanguage where NULL and 0 are the same.
SameIdentity(r1, r2) ==
  /\ IsBibleChapter(r1) = IsBibleChapter(r2)
  /\ r1.KeySymbol = r2.KeySymbol
  /\ MepsLanguageNorm(r1) = MepsLanguageNorm(r2)
  /\ r1.Type = r2.Type
  /\ IF IsBibleChapter(r1)
     THEN /\ r1.BookNumber = r2.BookNumber
          /\ r1.ChapterNumber = r2.ChapterNumber
     ELSE /\ r1.IssueTagNumber = r2.IssueTagNumber
          /\ r1.DocumentId = r2.DocumentId
          /\ r1.Track = r2.Track

Scanned == pc # "locationPhase1"

\* C24: the signatures phase 1 computes are equal for two rows exactly when
\* the rows fall under the same rule and agree on that rule's columns, a
\* NULL being different from 0; rows that differ only in IssueTagNumber,
\* DocumentId or Track being NULL or 0 have different signatures.
C24_SignatureIsIdentity ==
  Scanned =>
    \A i \in 1..Len(allLocations) : \A j \in 1..Len(allLocations) :
      (allLocations[i].contentSignature = allLocations[j].contentSignature)
        <=> SameIdentity(allLocations[i].row, allLocations[j].row)

\* r1 has MepsLanguage NULL, r2 has MepsLanguage 0, and they agree on every
\* other identity column.
DifferInNullLanguage(r1, r2) ==
  /\ r1.MepsLanguage = Null
  /\ r2.MepsLanguage = 0
  /\ \A col \in {"BookNumber", "ChapterNumber", "DocumentId", "Track",
                  "KeySymbol", "Type", "IssueTagNumber"} : r1[col] = r2[col]

TargetRowsLike(row) == {t \in targetDb.Location : SameIdentity(t, row)}

\* C25: once the Location rows are merged, two source rows that agree on all
\* identity columns except that one has MepsLanguage NULL and the other
\* MepsLanguage 0 are one row of the target.
C25_NullLanguageIsZero ==
  LocationsMerged =>
    \A r1 \in AllSourceLocations : \A r2 \in AllSourceLocations :
      DifferInNullLanguage(r1, r2) => Cardinality(TargetRowsLike(r1)) = 1

C25_Witness ==
  /\ LocationsMerged
  /\ \E s1 \in 1..Len(sources) : \E s2 \in 1..Len(sources) :
       /\ s1 # s2
       /\ \E i \in 1..Len(sources[s1].Location) : \E j \in 1..Len(sources[s2].Location) :
            /\ DifferInNullLanguage(sources[s1].Location[i], sources[s2].Location[j])
            /\ Cardinality(TargetRowsLike(sources[s1].Location[i])) = 1

-----------------------------------------------------------------------------
(* Playlist items.                                                         *)

\* Target rows with the Label of a row and, like it, no thumbnail.
SameItem(db, row) ==
  {t \in db.PlaylistItem : t.Label = row.Label /\ t.ThumbnailFilePath = NullText}

MergingItem ==
  /\ pc = "mergeTable" /\ CurrentTable = "PlaylistItem"
  /\ srcIdx <= Len(sources) /\ rowIdx <= Len(SourceRows(srcIdx, "PlaylistItem"))

ItemAtHand == SourceRows(srcIdx, "PlaylistItem")[rowIdx]

\* C26: when the row loop handles a PlaylistItem row without a thumbnail and the target
\* already holds a row with its Label and no thumbnail, the target still
\* holds exactly that one row afterwards and the registry maps the original
\* id of the row handled to the id of the row in the target.
C26_NullSafeItemIdentity ==
  [][(/\ MergingItem
      /\ ItemAtHand.ThumbnailFilePath = NullText
      /\ SameItem(targetDb, ItemAtHand) # {}
      /\ rowIdx' = rowIdx + 1)
     => /\ Cardinality(SameItem(targetDb', ItemAtHand)) = 1
        /\ SameItem(targetDb', ItemAtHand) = SameItem(targetDb, ItemAtHand)
        /\ HasMapping(idMappings', "PlaylistItem", ItemAtHand.PlaylistItemId)
        /\ \E t \in SameItem(targetDb, ItemAtHand) :
             idMappings'["PlaylistItem"][ItemAtHand.PlaylistItemId] = t.PlaylistItemId]_vars

\* The items of two sources with one Label and no thumbnail have been merged:
\* one row, and the second source's id in the registry.
C26_Witness ==
  /\ pc = "done"
  /\ Len(sources) = 2
  /\ Len(sources[1].PlaylistItem) = 1 /\ Len(sources[2].PlaylistItem) = 1
  /\ sources[1].PlaylistItem[1].Label = "Talk 23"
  /\ sources[2].PlaylistItem[1].Label = "Talk 23"
  /\ sources[1].PlaylistItem[1].ThumbnailFilePath = NullText
  /\ sources[2].PlaylistItem[1].ThumbnailFilePath = NullText
  /\ sources[1].PlaylistItem[1].PlaylistItemId # sources[2].PlaylistItem[1].PlaylistItemId
  /\ Cardinality(targetDb.PlaylistItem) = 1
  /\ HasMapping(idMappings, "PlaylistItem", sources[2].PlaylistItem[1].PlaylistItemId)
  /\ idMappings["PlaylistItem"][sources[2].PlaylistItem[1].PlaylistItemId]
       = sources[1].PlaylistItem[1].PlaylistItemId

-----------------------------------------------------------------------------
(* The capability assessment.                                              *)

Assessed == canHandle # NotAssessed

AssessedSize == TotalSize(validFiles(managedFiles))

\* C27: the assessment of canHandleClientMerge is negative for 50 MiB with
\* 2 GB of memory and for 100 MiB with 8 GB, positive for 5 MiB with 4 GB and
\* for 15 MiB with unknown memory, and negative for every total above 200 MiB
\* whatever the memory.
C27_AssessmentTable ==
  Assessed =>
    /\ (AssessedSize = 50 * MiB /\ deviceMemory = 2) => ~canHandle.canHandle
    /\ (AssessedSize = 100 * MiB /\ deviceMemory = 8) => ~canHandle.canHandle
    /\ (AssessedSize = 5 * MiB /\ deviceMemory = 4) => canHandle.canHandle
    /\ (AssessedSize = 15 * MiB /\ deviceMemory = Null) => canHandle.canHandle
    /\ AssessedSize > 200 * MiB => ~canHandle.canHandle

-----------------------------------------------------------------------------
(* Duplicates in phase 2 of mergeLocationData.                             *)

RowAtHand == allLocations[locIdx]

FirstOfRowAtHand == globalContentMap[RowAtHand.contentSignature]

\* Phase 2 is about to handle a row that is not the first of its signature.
DuplicateAtHand ==
  /\ pc = "locationPhase2"
  /\ locIdx <= Len(allLocations)
  /\ FirstOfRowAtHand # locIdx

-----------------------------------------------------------------------------
(* A failed insert in phase 2 of mergeLocationData.                        *)

\* The row phase 2 would insert for the row at hand.
AdjustedRowAtHand ==
  [RowAtHand.row EXCEPT
     !.LocationId = NextFreeLocationId(usedLocationIds, RowAtHand.originalLocationId)]

\* Phase 2 is at a first occurrence whose INSERT the target rejects: its id
\* or its UNIQUE columns are those of a row already there.
InsertFailsAtHand ==
  /\ locIdx <= Len(allLocations)
  /\ FirstOfRowAtHand = locIdx
  /\ \/ IdExists(targetDb, "Location", AdjustedRowAtHand.LocationId)
     \/ LocationUniqueViolated(targetDb, AdjustedRowAtHand)

HandledBefore(i) ==
  \E w \in written : /\ w.table = "Location"
                     /\ w.source = allLocations[i].sourceDb
                     /\ w.original = allLocations[i].row

\* C29: when the insert of a first occurrence fails, the step that handles
\* the row ends the run: it records no registry entry, adds no id to the used
\* ids, stamps no final id and changes no table; the run has failed, no later
\* Location row and no other table is handled, and no success message with an
\* archive is posted.
C29_FailedInsertAborts ==
  [][(pc = "locationPhase2" /\ InsertFailsAtHand /\ (pc' # pc \/ locIdx' # locIdx))
     => /\ pc' = "failed"
        /\ idMappings' = idMappings
        /\ usedLocationIds' = usedLocationIds
        /\ finalLocationId' = finalLocationId
        /\ finalLocationId[locIdx] = Null
        /\ targetDb' = targetDb
        /\ written' = written
        /\ \A i \in locIdx..Len(allLocations) : ~HandledBefore(i)
        /\ \A t \in TableNames \ {"Location"} : targetDb'[t] = {}
        /\ mergedMediaFiles' = mergedMediaFiles
        /\ \A i \in 1..Len(posted') : posted'[i].type # "success"]_vars

\* A run that failed on the insert of a first occurrence which had rows to
\* handle after it.
C29_Witness ==
  /\ pc = "failed"
  /\ InsertFailsAtHand
  /\ locIdx < Len(allLocations)
  /\ ~HasMapping(idMappings, "Location", RowAtHand.originalLocationId)
  /\ \A i \in 1..Len(posted) : posted[i].type # "success"

-----------------------------------------------------------------------------
(* The registry across the runs of one worker.                             *)

\* A row handled in the current run left the entry the registry holds for
\* (tableName, id).
RecordedInThisRun(tableName, id) ==
  \E w \in written :
    /\ w.table = tableName
    /\ w.outcome \in {"duplicate", "inserted"}
    /\ RowId(tableName, w.original) = id
    /\ w.id = idMappings[tableName][id]

\* C30: the registry is empty when a run starts, and every entry it holds
\* during a run was recorded by a row that run handled: what a run before it
\* in the same worker recorded, whether it succeeded or failed, is gone.
C30_RegistryScopedToRun ==
  /\ written = {} => idMappings = NoMappings
  /\ \A t \in TableNames : \A id \in DOMAIN idMappings[t] : RecordedInThisRun(t, id)

\* A second run ended in a worker whose first run had left an entry that the
\* second run did not record; a highlight of the second run on a row of that
\* id was not rewritten.
C30_Witness ==
  /\ runs = 2
  /\ pc = "done"
  /\ \E id \in DOMAIN earlierMappings["Location"] :
       /\ ~HasMapping(idMappings, "Location", id)
       /\ \E m \in targetDb.UserMark : m.LocationId = id

-----------------------------------------------------------------------------
(* Foreign keys of the rows mergeTableData inserts.                        *)

\* The row loop of mergeTableData handles a row and the target gains a row;
\* the table is one whose rows reach updateForeignKeyReferences as they are
\* in the source, but for their own id.
InsertingRow ==
  /\ pc = "mergeTable"
  /\ CurrentTable # "Bookmark"
  /\ rowIdx' = rowIdx + 1
  /\ targetDb'[CurrentTable] # targetDb[CurrentTable]

SourceRowAtHand == SourceRows(srcIdx, CurrentTable)[rowIdx]

InsertedRowOf(tableName) ==
  CHOOSE t \in targetDb'[tableName] : t \notin targetDb[tableName]

\* The registry's entry for (tableName, value) if it has one, else the value.
ThroughRegistry(tableName, value) ==
  IF value \in DOMAIN idMappings[tableName] THEN idMappings[tableName][value] ELSE value

\* C31: in a row mergeTableData inserts, every non-null foreign key is the
\* registry's entry for the source value when there is one, also when the
\* source value is the id of a row of the target, and the source value itself
\* when there is none, whether or not the target has a row of that id; a null
\* foreign key and every other column but the row's own id are as in the source.
C31_ForeignKeyRewriting ==
  [][InsertingRow =>
       \A c \in DOMAIN SourceRowAtHand :
         \/ c = IdColumn(CurrentTable)
         \/ /\ IsForeignKey(CurrentTable, c)
            /\ SourceRowAtHand[c] # Null
            /\ InsertedRowOf(CurrentTable)[c] =
                 ThroughRegistry(ReferencedTable(CurrentTable, c), SourceRowAtHand[c])
         \/ /\ ~IsForeignKey(CurrentTable, c) \/ SourceRowAtHand[c] = Null
            /\ InsertedRowOf(CurrentTable)[c] = SourceRowAtHand[c]]_vars

\* A highlight was inserted whose LocationId has an entry in the registry
\* and is also the id of a row of the target: it carries the entry's value.
C31_Witness ==
  \E w \in written :
    /\ w.table = "UserMark" /\ w.outcome = "inserted"
    /\ HasMapping(idMappings, "Location", w.original.LocationId)
    /\ IdExists(targetDb, "Location", w.original.LocationId)
    /\ idMappings["Location"][w.original.LocationId] # w.original.LocationId
    /\ \E m \in targetDb.UserMark :
         /\ m.UserMarkId = w.id
         /\ m.LocationId = idMappings["Location"][w.original.LocationId]

-----------------------------------------------------------------------------
(* Bookmarks.                                                              *)

InsertingBookmark ==
  /\ pc = "mergeTable"
  /\ CurrentTable = "Bookmark"
  /\ rowIdx' = rowIdx + 1
  /\ targetDb'.Bookmark # targetDb.Bookmark

\* The registry's answer for the LocationId of the row at hand is the id
\* under which the target holds the Location row the bookmark was set on.
EntryOfOwnSource ==
  \E i \in 1..Len(sources[srcIdx].Location) :
    /\ sources[srcIdx].Location[i].LocationId = SourceRowAtHand.LocationId
    /\ \E t \in targetDb.Location :
         /\ t.LocationId = ThroughRegistry("Location", SourceRowAtHand.LocationId)
         /\ Signature(t) = Signature(sources[srcIdx].Location[i])

\* C32: a foreign key goes through the registry once: the LocationId of a
\* Bookmark row written to the target is the registry's entry for the source
\* value, or the source value if there is none, also when the registry has
\* an entry for the rewritten value.  Stated for the rows whose entry is
\* the one of their own source.
C32_RewrittenOnce ==
  [][(InsertingBookmark /\ EntryOfOwnSource) =>
       InsertedRowOf("Bookmark").LocationId =
         ThroughRegistry("Location", SourceRowAtHand.LocationId)]_vars

HandlingBookmark ==
  /\ pc = "mergeTable"
  /\ CurrentTable = "Bookmark"
  /\ rowIdx' = rowIdx + 1

\* The Bookmark rows of the target with the registry's answers for the
\* LocationId and the PublicationLocationId of the row at hand.
SameRewrittenPair ==
  {b \in targetDb.Bookmark :
     /\ b.LocationId = ThroughRegistry("Location", SourceRowAtHand.LocationId)
     /\ b.PublicationLocationId =
          ThroughRegistry("Location", SourceRowAtHand.PublicationLocationId)}

BookmarkSkipped ==
  \E w \in written' \ written : w.table = "Bookmark" /\ w.outcome = "duplicate"

\* C33: a Bookmark row is skipped as a duplicate exactly when the target
\* already holds a Bookmark whose LocationId and PublicationLocationId are
\* the registry's answers for the two values of the row; a skipped row
\* leaves the target as it is.
C33_BookmarkDuplicateAfterRewrite ==
  [][HandlingBookmark =>
       /\ BookmarkSkipped <=> SameRewrittenPair # {}
       /\ BookmarkSkipped => targetDb' = targetDb]_vars

\* A bookmark was skipped whose pair matched a target row only after
\* the rewrite.
C33_Witness ==
  \E w \in written :
    /\ w.table = "Bookmark" /\ w.outcome = "duplicate"
    /\ HasMapping(idMappings, "Location", w.original.LocationId)
    /\ idMappings["Location"][w.original.LocationId] # w.original.LocationId
    /\ \E b \in targetDb.Bookmark :
         /\ b.LocationId = idMappings["Location"][w.original.LocationId]
         /\ b.LocationId # w.original.LocationId


-----------------------------------------------------------------------------
(* The ids mergeTableData hands out on an id conflict.                     *)

\* What the row loop recorded about the row it handles in this step.
HandledNow == CHOOSE w \in written' : w \notin written

\* The row loop handles a row of a GUID or composite table whose id is taken
\* in the target and which no duplicate check skipped: the row is reassigned.
ReassigningId ==
  /\ pc = "mergeTable"
  /\ rowIdx' = rowIdx + 1
  /\ written' # written
  /\ isGuidOrCompositeUniqueTable(CurrentTable)
  /\ IdExists(targetDb, CurrentTable, RowId(CurrentTable, SourceRowAtHand))
  /\ HandledNow.outcome # "duplicate"

\* C34: a row reassigned by mergeTableData is handed an id that no row of the
\* target has; a row for which the search of 1,000 attempts found no free id
\* is not inserted and leaves no registry entry.
C34_ReassignedIdIsFree ==
  [][ReassigningId =>
       \/ ~IdExists(targetDb, CurrentTable, HandledNow.id)
       \/ targetDb' = targetDb /\ idMappings' = idMappings]_vars


-----------------------------------------------------------------------------
(* The ids of the tables merged by offset.                                 *)

\* The tables with an id column whose rows mergeTableData moves by the offset.
OffsetTables ==
  {t \in TableNames \ {"android_metadata"} : ~isGuidOrCompositeUniqueTable(t)}

\* C35: in a table merged by offset, a row never receives the final id of a
\* row handled from an earlier source, whatever the number of sources, and
\* INSERT OR IGNORE drops no row.
C35_OffsetsKeepRangesDisjoint ==
  \A w \in written :
    w.table \in OffsetTables =>
      /\ w.outcome = "inserted"
      /\ \A v \in written :
           (v.table = w.table /\ v.source < w.source) => v.id # w.id


-----------------------------------------------------------------------------
(* Rows the insert refused.                                                *)

\* C36: a row of mergeTableData whose insert failed does not abort the run:
\* the run does not fail, and when it is done every row of every source in
\* every table the configuration includes has been handled and the last
\* message posted is the success message with the archive.
C36_RowFailureDoesNotAbort ==
  (\E w \in written : w.outcome = "ignored") =>
    /\ pc # "failed"
    /\ pc = "done" =>
         /\ posted # <<>> /\ posted[Len(posted)].type = "success"
         /\ \A t \in TableNames \ {"Location"} : HadItsTurn(t)

\* A run is done that had a row refused and inserted a row after it: a row
\* of a later table, of a later source or further down in the same source.
C36_Witness ==
  /\ pc = "done"
  /\ posted[Len(posted)].type = "success"
  /\ \E w \in written : \E v \in written :
       /\ w.outcome = "ignored"
       /\ w.table # "Location"
       /\ v.outcome = "inserted"
       /\ v.table # "Location"
       /\ \/ PositionIn(tablesToMerge, v.table) > PositionIn(tablesToMerge, w.table)
          \/ v.table = w.table /\ v.source > w.source
          \/ /\ v.table = w.table
             /\ v.source = w.source
             /\ RowId(v.table, v.original) > RowId(w.table, w.original)


-----------------------------------------------------------------------------
(* validateMergeIntegrity and the archive.                                 *)

\* C37: validateMergeIntegrity changes no table of the target and no entry
\* of the registry, and the database in the archive is the target as it was
\* exported before the validation ran, which is the target after it.
C37_ValidationReadOnly ==
  [][(pc = "finish" /\ pc' = "done") =>
       /\ targetDb' = targetDb
       /\ idMappings' = idMappings
       /\ posted'[Len(posted')].database = targetDb
       /\ posted'[Len(posted')].database = targetDb']_vars

\* A run is done whose validation had duplicate locations to report, and
\* the archive holds them as the target does.
C37_Witness ==
  /\ pc = "done"
  /\ posted[Len(posted)].type = "success"
  /\ posted[Len(posted)].validation.duplicateLocations > 0
  /\ posted[Len(posted)].validation.totalMappings > 0
  /\ posted[Len(posted)].database = targetDb


-----------------------------------------------------------------------------
(* The promise of MergeWorkerClient.mergeFiles.                            *)

\* C38: the promise mergeFiles returns is settled in the end: resolved when
\* the worker's merge succeeds, rejected when the files cannot be read or
\* processMerge fails; it does not stay pending.
C38_EventuallySettles ==
  (promise = "pending") ~> (promise \in {"resolved", "rejected"})


-----------------------------------------------------------------------------
(* Two runs in one worker at the same time.                                *)

\* C39: a run that a second 'merge' message overlaps ends as it ends alone:
\* its foreign keys are rewritten with its own mappings, so that its target
\* is the target of the run alone, and its validation report counts the
\* mappings the run alone records.
C39_RunsIsolated ==
  (pc = "done" /\ runs = 1) =>
    LET alone == processMerge(sources, mergeConfig)
    IN /\ targetDb = alone.db
       /\ posted[Len(posted)].validation.totalMappings = TotalMappings(alone.mappings)

====
